---- MODULE Spec2Model ----
(***************************************************************************)
(* Quote cache, batch quote fetch, watchlist store and accounts of         *)
(* STOCK_TERMINAL.                                                         *)
(*                                                                         *)
(* The repository holds three revisions of StockService.get_stock_data:    *)
(*   "app"      src/app/stock_service.py           (Mongo cache, lock)     *)
(*   "backend"  src/BACKEND/app/stock_service.py   (Mongo cache, no lock)  *)
(*   "services" src/app/services/stock_service.py  (in-process dict)       *)
(* A behaviour runs one revision, chosen in Init (variable rev).           *)
(*                                                                         *)
(* Time is counted in ticks.  Durations are scaled to ticks; what the code *)
(* compares is kept: the freshness windows are shorter than a day, and the *)
(* clock can run past one day.                                             *)
(***************************************************************************)
EXTENDS Integers, Sequences, FiniteSets, TLC

VARIABLES
    rev,        \* the revision this behaviour runs
    now,        \* the clock (datetime.utcnow() / datetime.now()), in ticks
    stocks,     \* the quote cache: a set of documents [symbol, at]
    lock,       \* app: holder of StockService._cache_lock, or NoProc
    dbSet,      \* app: self.db assigned; backend: module global db_service assigned
    req,        \* the get_stock_data invocations in flight, one per request slot
    lastGood,   \* history: per requested symbol, the newest fetch time of a
                \* completed invocation that fetched and wrote back
    started,    \* history: the number of invocations started so far
    batch,      \* the get_batch_stock_data call in progress
    watchlists, \* the watchlists collection: documents in insertion order
    users,      \* the usernames the users collection holds
    boot,       \* app: where init_mongodb and the startup event stand
    accounts,   \* the users collection: its documents in insertion order
    history,    \* app: the stock_history collection: documents [symbol, period, at]
    reply,      \* the last watchlist operation and what it returned
    wget        \* backend: the get_watchlist calls between find_one and insert_one

vars == <<rev, now, stocks, lock, dbSet, req, lastGood, started, batch, watchlists, users, boot, history, accounts, reply, wget>>

----------------------------------------------------------------------------
(* Bounds *)

MaxTime == 6
MaxCalls == 3
MaxTickers == 11

(* Program constants, in ticks *)

AppFreshMinutes == 2      \* timedelta(minutes=5)
CacheTtl == 2             \* self._cache_ttl = 300
SvcCacheDuration == 3     \* timedelta(minutes=15)
TtlIndexSeconds == 2      \* expireAfterSeconds=300
SecondsPerDay == 4        \* timedelta.seconds wraps at one day
BatchSize == 10           \* self._batch_size = 10

----------------------------------------------------------------------------
(* Values *)

Revisions == {"app", "backend", "services"}
Procs == {1, 2}
NoProc == 0
NoTime == 0 - 1
NoSym == "-"

\* The strings a caller may pass as symbol / ticker.
RawSymbols == {"aapl", "AAPL", "MSFT"}

\* str.upper()
Upper(s) ==
    CASE s = "aapl" -> "AAPL"
      [] s = "msft" -> "MSFT"
      [] OTHER -> s

\* What the provider call of one invocation does: info is non-empty ("ok"),
\* info is empty ("empty"), or the call raises ("error").
Outcomes == {"ok", "empty", "error"}

\* An invocation: where it is (pc), its argument (sym), what it got from the
\* provider (out), the snapshot it holds (snapAt, its fetched-at) and what it
\* returns (res).  History: seen is lastGood of its symbol when it started;
\* rk, pk, wk are the keys it used for the cache lookup, the provider call
\* and the cache write.
IdleReq ==
    [pc |-> "idle", sym |-> NoSym, seen |-> NoTime, snapAt |-> NoTime,
     out |-> "none", res |-> "none", rk |-> NoSym, pk |-> NoSym, wk |-> NoSym]

\* A get_batch_stock_data call: its (valid) tickers, the provider's answer
\* per symbol while it runs (market), the number of chunks done, the results
\* of the tasks in its tasks list, and its results mapping.
NoBatch ==
    [pc |-> "idle", tickers |-> <<>>, market |-> <<>>, chunk |-> 0,
     tasks |-> <<>>, results |-> <<>>]

NoReply == [op |-> "none"]

NoGet == [pc |-> "idle", user_id |-> "-", was |-> FALSE]

\* init_mongodb and the startup event have not begun: no attempt, failure
\* or sleep so far, no index, db_service unassigned, no error raised.
NoBoot ==
    [pc |-> "idle", attempts |-> 0, failures |-> 0, sleeps |-> 0, step |-> 0,
     indexes |-> 0, dbService |-> FALSE, err |-> "-"]

Max(a, b) == IF a >= b THEN a ELSE b

----------------------------------------------------------------------------
(* The document store operations the services call *)

\* Mutant: the document is inserted, whether or not the key is present.
UpdateOneInsert(coll, key, doc) ==
    coll \cup {doc}

\* collection.update_one({"symbol": key}, {"$set": doc}, upsert=True), and
\* the upsert of one document by its key in general.
UpdateOneUpsert(coll, key, doc) ==
    IF \E d \in coll : d.symbol = key
    THEN LET old == CHOOSE d \in coll : d.symbol = key
         IN  (coll \ {old}) \cup {doc}
    ELSE coll \cup {doc}

\* app: find_one({"symbol": ticker.upper(), "last_updated": {"$gt": now - 5 min}})
AppFindFresh(coll, ticker, t) ==
    {d \in coll : d.symbol = Upper(ticker) /\ d.at > t - AppFreshMinutes}

\* backend: DatabaseService.get_stock_data: find_one({"symbol": symbol})
BkFind(coll, symbol) ==
    {d \in coll : d.symbol = symbol}

\* backend: (datetime.now() - lastUpdated).seconds < self._cache_ttl
\* timedelta.seconds is the seconds within the day: the days are dropped.
BkIsFresh(d, t) ==
    ((t - d.at) % SecondsPerDay) < CacheTtl

\* services: symbol in self.cache, and datetime.now() - timestamp < cache_duration
SvcFindFresh(coll, symbol, t) ==
    {d \in coll : d.symbol = symbol /\ t - d.at < SvcCacheDuration}

\* The snapshots the cache holds for symbol s, read case-insensitively.
Cached(coll, s) ==
    {d \in coll : Upper(d.symbol) = Upper(s)}

\* The freshness window of the running revision.
Window ==
    CASE rev = "app" -> AppFreshMinutes
      [] rev = "backend" -> CacheTtl
      [] OTHER -> SvcCacheDuration

\* The HTTP status the revision's route handler answers with for the result
\* res of get_stock_data.  app: get_stock_data of src/app/main.py returns the
\* data, returns a {"message": ...} body for None, and turns an exception
\* into a 500.  backend: get_stock_data of BACKEND/app/main.py and get_stock
\* of routes/stock.py pass an HTTPException on and turn any other exception
\* into a 500.
HttpStatus(r, res) ==
    CASE res = "data" -> 200
      [] res = "none" -> 200
      [] res = "http404" -> 404
      [] OTHER -> 500

----------------------------------------------------------------------------
(* Time *)

Tick ==
    /\ now < MaxTime
    /\ now' = now + 1
    /\ UNCHANGED <<rev, stocks, lock, dbSet, req, lastGood, started, batch, watchlists, users, boot, history, accounts, reply, wget>>

\* The response of a finished invocation is delivered; the slot is free again.
Return(p) ==
    /\ req[p].pc = "done"
    /\ req' = [req EXCEPT ![p] = IdleReq]
    /\ UNCHANGED <<rev, now, stocks, lock, dbSet, lastGood, started, batch, watchlists, users, boot, history, accounts, reply, wget>>

\* A new invocation with argument s.
NewReq(s) ==
    [IdleReq EXCEPT !.sym = s, !.seen = lastGood[s]]

----------------------------------------------------------------------------
(* app: src/app/stock_service.py *)

\* StockService.init_db_service: self.db = get_db()
AppInitDbService ==
    /\ rev = "app"
    /\ ~dbSet
    /\ dbSet' = TRUE
    /\ UNCHANGED <<rev, now, stocks, lock, req, lastGood, started, batch, watchlists, users, boot, history, accounts, reply, wget>>

\* A request enters get_stock_data: async with self._cache_lock.  A free lock
\* is taken without suspending and find_one is awaited; a held lock suspends
\* the invocation.
AppStart(p, s) ==
    /\ rev = "app"
    /\ req[p].pc = "idle"
    /\ started < MaxCalls
    /\ started' = started + 1
    /\ IF lock = NoProc
       THEN /\ lock' = p
            /\ req' = [req EXCEPT ![p] = [NewReq(s) EXCEPT !.pc = "find"]]
       ELSE /\ lock' = lock
            /\ req' = [req EXCEPT ![p] = [NewReq(s) EXCEPT !.pc = "lock"]]
    /\ UNCHANGED <<rev, now, stocks, dbSet, lastGood, batch, watchlists, users, boot, history, accounts, reply, wget>>

\* A suspended invocation gets the released lock.
AppAcquire(p) ==
    /\ rev = "app"
    /\ req[p].pc = "lock"
    /\ lock = NoProc
    /\ lock' = p
    /\ req' = [req EXCEPT ![p].pc = "find"]
    /\ UNCHANGED <<rev, now, stocks, dbSet, lastGood, started, batch, watchlists, users, boot, history, accounts, reply, wget>>

\* await self.db.stocks.find_one(...) answers.  On a hit the cached StockData
\* is returned; on a miss yf.Ticker(ticker).info is requested in a thread.
AppFind(p) ==
    /\ rev = "app"
    /\ req[p].pc = "find"
    /\ LET r == [req[p] EXCEPT !.seen = NoTime]
           hit == AppFindFresh(stocks, r.sym, now)
       IN  IF ~dbSet
           THEN \* self.db is None: AttributeError, logged and re-raised
                /\ req' = [req EXCEPT ![p] = [r EXCEPT !.pc = "done", !.res = "raise"]]
                /\ lock' = NoProc
           ELSE IF hit # {}
           THEN /\ req' = [req EXCEPT ![p] =
                       [r EXCEPT !.pc = "done", !.res = "data", !.rk = Upper(r.sym),
                                 !.snapAt = (CHOOSE d \in hit : TRUE).at]]
                /\ lock' = NoProc
           ELSE /\ req' = [req EXCEPT ![p] =
                       [r EXCEPT !.pc = "fetch", !.rk = Upper(r.sym), !.pk = r.sym]]
                /\ lock' = lock
    /\ UNCHANGED <<rev, now, stocks, dbSet, lastGood, started, batch, watchlists, users, boot, history, accounts, reply, wget>>

\* await asyncio.to_thread(lambda: stock.info) answers.  On data the
\* StockData is built (last_updated = utcnow()) and update_one is awaited;
\* no info returns None; an exception is logged and re-raised.
AppFetch(p, o) ==
    /\ rev = "app"
    /\ req[p].pc = "fetch"
    /\ LET r == [req[p] EXCEPT !.out = o]
       IN  CASE o = "ok" ->
                  /\ req' = [req EXCEPT ![p] = [r EXCEPT !.pc = "store", !.snapAt = now]]
                  /\ lock' = lock
             [] o = "empty" ->
                  /\ req' = [req EXCEPT ![p] = [r EXCEPT !.pc = "done", !.res = "none"]]
                  /\ lock' = NoProc
             [] o = "error" ->
                  /\ req' = [req EXCEPT ![p] = [r EXCEPT !.pc = "done", !.res = "raise"]]
                  /\ lock' = NoProc
    /\ UNCHANGED <<rev, now, stocks, dbSet, lastGood, started, batch, watchlists, users, boot, history, accounts, reply, wget>>

\* await self.db.stocks.update_one({"symbol": ticker.upper()}, {"$set": ...},
\* upsert=True) answers; the StockData is returned and the lock released.
AppStore(p) ==
    /\ rev = "app"
    /\ req[p].pc = "store"
    /\ LET r == req[p]
           key == Upper(r.sym)
       IN  /\ stocks' = UpdateOneUpsert(stocks, key, [symbol |-> key, at |-> r.snapAt])
           /\ req' = [req EXCEPT ![p] = [r EXCEPT !.pc = "done", !.res = "data", !.wk = key]]
           /\ lastGood' = [lastGood EXCEPT ![r.sym] = Max(@, r.snapAt)]
    /\ lock' = NoProc
    /\ UNCHANGED <<rev, now, dbSet, started, batch, watchlists, users, boot, history, accounts, reply, wget>>

\* Mutant: a TTL index that expires a document one tick after its write.
TtlExpiredEarly(d, t) == t - d.at >= 1

\* idx_stocks_ttl: last_updated is expireAfterSeconds = 300 or more ago.
TtlExpired(d, t) == t - d.at >= TtlIndexSeconds

\* The store's TTL monitor on idx_stocks_ttl removes the expired documents.
AppTtlMonitor ==
    /\ rev = "app"
    /\ \E d \in stocks : TtlExpired(d, now)
    /\ stocks' = {d \in stocks : ~TtlExpired(d, now)}
    /\ UNCHANGED <<rev, now, lock, dbSet, req, lastGood, started, batch, watchlists, users, boot, history, accounts, reply, wget>>

----------------------------------------------------------------------------
(* backend: src/BACKEND/app/stock_service.py *)

\* A request enters get_stock_data through handler h: "main" uses the module
\* instance StockService(db_service) of BACKEND/app/main.py, "router" a new
\* StockService() per request (BACKEND/app/routes/stock.py), whose
\* ensure_db_service calls init_db_service: that assigns the module global and
\* then fails on DatabaseService.ensure_initialized, which does not exist.
\* Otherwise db_service.get_stock_data is awaited.
BkStart(p, s, h) ==
    /\ rev = "backend"
    /\ req[p].pc = "idle"
    /\ started < MaxCalls
    /\ started' = started + 1
    /\ IF h = "router" /\ ~dbSet
       THEN /\ dbSet' = TRUE
            /\ req' = [req EXCEPT ![p] =
                   [NewReq(s) EXCEPT !.pc = "done", !.res = "raise", !.seen = NoTime]]
       ELSE /\ dbSet' = dbSet
            /\ req' = [req EXCEPT ![p] = [NewReq(s) EXCEPT !.pc = "read"]]
    /\ UNCHANGED <<rev, now, stocks, lock, lastGood, batch, watchlists, users, boot, history, accounts, reply, wget>>

\* await self.db_service.get_stock_data(symbol) answers; on a miss the
\* provider is called at once (ticker.info is a blocking call), the snapshot
\* is built (lastUpdated = datetime.now()) and store_stock_data is awaited.
BkRead(p, o) ==
    /\ rev = "backend"
    /\ req[p].pc = "read"
    /\ LET r == [req[p] EXCEPT !.seen = NoTime, !.rk = req[p].sym]
           found == BkFind(stocks, r.sym)
           cached == CHOOSE d \in found : TRUE
       IN  IF found # {} /\ BkIsFresh(cached, now)
           THEN req' = [req EXCEPT ![p] =
                           [r EXCEPT !.pc = "done", !.res = "data", !.snapAt = cached.at]]
           ELSE LET c == [r EXCEPT !.pk = r.sym, !.out = o]
                IN  CASE o = "ok" ->
                           req' = [req EXCEPT ![p] = [c EXCEPT !.pc = "store", !.snapAt = now]]
                      [] o = "empty" ->
                           req' = [req EXCEPT ![p] = [c EXCEPT !.pc = "done", !.res = "http404"]]
                      [] o = "error" ->
                           req' = [req EXCEPT ![p] = [c EXCEPT !.pc = "done", !.res = "http500"]]
    /\ UNCHANGED <<rev, now, stocks, lock, dbSet, lastGood, started, batch, watchlists, users, boot, history, accounts, reply, wget>>

\* await self.db_service.store_stock_data(stock_data) answers:
\* update_one({"symbol": stock_data["symbol"]}, {"$set": stock_data}, upsert=True)
BkStore(p) ==
    /\ rev = "backend"
    /\ req[p].pc = "store"
    /\ LET r == req[p]
           key == Upper(r.sym)
       IN  /\ stocks' = UpdateOneUpsert(stocks, key, [symbol |-> key, at |-> r.snapAt])
           /\ req' = [req EXCEPT ![p] = [r EXCEPT !.pc = "done", !.res = "data", !.wk = key]]
           /\ lastGood' = [lastGood EXCEPT ![r.sym] = Max(@, r.snapAt)]
    /\ UNCHANGED <<rev, now, lock, dbSet, started, batch, watchlists, users, boot, history, accounts, reply, wget>>

----------------------------------------------------------------------------
(* services: src/app/services/stock_service.py *)

\* get_stock_data awaits nothing: the whole call is one step.
SvcGetStockData(p, s, o) ==
    /\ rev = "services"
    /\ req[p].pc = "idle"
    /\ started < MaxCalls
    /\ started' = started + 1
    /\ LET r == [NewReq(s) EXCEPT !.rk = s]
           hit == SvcFindFresh(stocks, s, now)
       IN  IF hit # {}
           THEN /\ req' = [req EXCEPT ![p] =
                       [r EXCEPT !.pc = "done", !.res = "data",
                                 !.snapAt = (CHOOSE d \in hit : TRUE).at]]
                /\ UNCHANGED <<stocks, lastGood>>
           ELSE LET c == [r EXCEPT !.pk = s, !.out = o]
                IN  IF o = "ok"
                    THEN /\ stocks' = UpdateOneUpsert(stocks, s, [symbol |-> s, at |-> now])
                         /\ req' = [req EXCEPT ![p] =
                                [c EXCEPT !.pc = "done", !.res = "data",
                                          !.snapAt = now, !.wk = s]]
                         /\ lastGood' = [lastGood EXCEPT ![s] = Max(@, now)]
                    ELSE \* no info, or an exception: both return None
                         /\ req' = [req EXCEPT ![p] = [c EXCEPT !.pc = "done", !.res = "none"]]
                         /\ UNCHANGED <<stocks, lastGood>>
    /\ UNCHANGED <<rev, now, lock, dbSet, batch, watchlists, users, boot, history, accounts, reply, wget>>

----------------------------------------------------------------------------
(* The quote service *)

Init ==
    /\ rev \in Revisions
    /\ now = 0
    /\ stocks = {}
    /\ lock = NoProc
    /\ dbSet = FALSE
    /\ req = [p \in Procs |-> IdleReq]
    /\ lastGood = [s \in RawSymbols |-> NoTime]
    /\ started = 0
    /\ batch = NoBatch
    /\ watchlists = <<>>
    /\ users = {}
    /\ boot = NoBoot
    /\ accounts = <<>>
    /\ history = {}
    /\ reply = NoReply
    /\ wget = [p \in Procs |-> NoGet]

Next ==
    \/ Tick
    \/ \E p \in Procs : Return(p)
    \/ AppInitDbService
    \/ \E p \in Procs, s \in RawSymbols : AppStart(p, s)
    \/ \E p \in Procs : AppAcquire(p)
    \/ \E p \in Procs : AppFind(p)
    \/ \E p \in Procs, o \in Outcomes : AppFetch(p, o)
    \/ \E p \in Procs : AppStore(p)
    \/ AppTtlMonitor
    \/ \E p \in Procs, s \in RawSymbols, h \in {"main", "router"} : BkStart(p, s, h)
    \/ \E p \in Procs, o \in Outcomes : BkRead(p, o)
    \/ \E p \in Procs : BkStore(p)
    \/ \E p \in Procs, s \in RawSymbols, o \in Outcomes : SvcGetStockData(p, s, o)

Spec == Init /\ [][Next]_vars

----------------------------------------------------------------------------
(* Steps of an invocation, as seen in a pair of states *)

\* p looks the cache up in this step.
LooksUp(p) == req[p].rk = NoSym /\ req'[p].rk # NoSym

\* p calls the provider in this step (app: requests the call).
CallsProvider(p) == req[p].pk = NoSym /\ req'[p].pk # NoSym

\* p writes the cache in this step.
Writes(p) == req[p].wk = NoSym /\ req'[p].wk # NoSym

\* The newest fetch time of a get-quote of p's symbol that had fetched and
\* written back when p started.
SeenAtStart(p) ==
    IF rev = "services" THEN lastGood[req'[p].sym] ELSE req[p].seen

\* p is between its cache read and its cache write.
InCritical(p) == req[p].rk # NoSym /\ req[p].pc # "done"

----------------------------------------------------------------------------
(* Claims *)

\* C1: a get-quote(S) that starts after an earlier get-quote(S) has fetched
\* and written back, and looks the cache up within the freshness window of
\* that fetch, issues no provider call.
C1_SecondCallFromCache ==
    [][\A p \in Procs :
          (LooksUp(p) /\ SeenAtStart(p) # NoTime /\ now - SeenAtStart(p) < Window)
             => ~CallsProvider(p)]_vars

\* C2: a get-quote(S) that finds the cached snapshot of S at or beyond the
\* freshness window issues a provider call, and the snapshot it then holds
\* has a fetched-at strictly greater than the previous snapshot's.
C2_StaleRefetches ==
    [][\A p \in Procs :
          (/\ LooksUp(p)
           /\ Cached(stocks, req'[p].sym) # {}
           /\ \A d \in Cached(stocks, req'[p].sym) : now - d.at >= Window)
             => /\ req'[p].pk # NoSym
                /\ req'[p].snapAt # NoTime =>
                      \A d \in Cached(stocks, req'[p].sym) : req'[p].snapAt > d.at]_vars

\* C3: no two invocations are both between their cache read and their cache
\* write.
C3_NoInterleaving ==
    \A p, q \in Procs : (p # q /\ InCritical(p)) => ~InCritical(q)

\* C4: the cache lookup, the provider call and the cache write of
\* get-quote(s) all use upper(s).
C4_UppercaseEverywhere ==
    \A p \in Procs :
       /\ req[p].rk \in {NoSym, Upper(req[p].sym)}
       /\ req[p].pk \in {NoSym, Upper(req[p].sym)}
       /\ req[p].wk \in {NoSym, Upper(req[p].sym)}

\* C5: a quote request whose provider call returns no usable data ends in a
\* 404 response.
C5_NoDataIs404 ==
    \A p \in Procs :
       (rev # "services" /\ req[p].pc = "done" /\ req[p].out = "empty")
          => HttpStatus(rev, req[p].res) = 404

\* C6: when the provider call of an invocation errors, the invocation fails
\* with a Service-Error and the cache is left as it was.
C6_ProviderErrorIs500 ==
    [][\A p \in Procs :
          (req[p].out = "none" /\ req'[p].out = "error")
             => /\ req'[p].res \in {"raise", "http500"}
                /\ HttpStatus(rev, req'[p].res) = 500
                /\ req'[p].wk = NoSym
                /\ stocks' = stocks]_vars

\* C7: the cache holds at most one snapshot per symbol; a snapshot is stamped
\* with the time of its fetch, and right after the write-back of a fetch the
\* cache's snapshot for that symbol is the fetched one.
OnePerSymbol ==
    \A d, e \in stocks : d.symbol = e.symbol => d = e

C7_UpsertReplaces ==
    /\ []OnePerSymbol
    /\ [][\A p \in Procs :
             /\ (req[p].out # "ok" /\ req'[p].out = "ok") => req'[p].snapAt = now
             /\ Writes(p) =>
                   {d \in stocks' : d.symbol = req'[p].wk}
                      = {[symbol |-> req'[p].wk, at |-> req'[p].snapAt]}]_vars

\* C7 witness: two write-backs for one symbol at different times have
\* happened, and the cache holds one snapshot.
C7_Witness ==
    /\ rev # "services"
    /\ lastGood["aapl"] # NoTime
    /\ lastGood["AAPL"] # NoTime
    /\ lastGood["aapl"] # lastGood["AAPL"]
    /\ Cardinality(stocks) = 1

----------------------------------------------------------------------------
(* get_batch_stock_data: src/app/stock_service.py, src/BACKEND/app/stock_service.py *)

\* The tickers a batch is called with, and the symbols the provider knows.
BatchTickers == {"aapl", "MSFT"}
Canonical == {Upper(t) : t \in RawSymbols}
TickerLists == UNION {[1..n -> BatchTickers] : n \in 0..MaxTickers}

Min(a, b) == IF a <= b THEN a ELSE b

\* The tasks of a chunk run in the order they were created: the app
\* revision serialises them on _cache_lock; in the backend revision they
\* interleave at the store's awaits, which changes how often the provider
\* is called but not the kind or the symbol of any task's result.
\* One get_stock_data(t) of a batch task, run to its end on cache coll at
\* time tm with provider answers m: [coll, res], res the task's result as
\* asyncio.gather(..., return_exceptions=True) reports it.
TaskGetStockData(r, coll, t, m, tm) ==
    LET hit == IF r = "app" THEN AppFindFresh(coll, t, tm)
               ELSE {d \in BkFind(coll, t) : BkIsFresh(d, tm)}
        key == Upper(t)
    IN  IF hit # {}
        THEN [coll |-> coll,
              res |-> [kind |-> "data", symbol |-> (CHOOSE d \in hit : TRUE).symbol]]
        ELSE CASE m[key] = "ok" ->
                    [coll |-> UpdateOneUpsert(coll, key, [symbol |-> key, at |-> tm]),
                     res |-> [kind |-> "data", symbol |-> key]]
               [] m[key] = "empty" /\ r = "app" ->
                    [coll |-> coll, res |-> [kind |-> "none"]]
               [] OTHER ->
                    [coll |-> coll, res |-> [kind |-> "exception"]]

\* The tasks of one chunk, run one after the other from the state acc =
\* [coll, done]: the cache and the results in the order the tasks were
\* created.
RECURSIVE RunTasks(_, _, _, _, _)
RunTasks(r, acc, ts, m, tm) ==
    IF ts = <<>>
    THEN acc
    ELSE LET first == TaskGetStockData(r, acc.coll, Head(ts), m, tm)
         IN  RunTasks(r, [coll |-> first.coll, done |-> Append(acc.done, first.res)],
                      Tail(ts), m, tm)

\* tickers[i:i + self._batch_size] for the chunk numbered c (from 0)
Chunk(ts, c) ==
    SubSeq(ts, c * BatchSize + 1, Min(Len(ts), (c + 1) * BatchSize))

\* What tasks holds when the next chunk starts: the app revision never
\* empties it, the backend revision does (tasks = []).
TasksAfterChunk(r, tasks) ==
    IF r = "app" THEN tasks ELSE <<>>

\* for ticker, result in zip(chunk, completed): the results mapping after
\* the pairs from position i on.  An exception is logged (app) or stored as
\* None (backend); a falsy result is skipped.
RECURSIVE ZipInto(_, _, _, _, _)
ZipInto(r, results, chunk, completed, i) ==
    IF i > Len(chunk) \/ i > Len(completed)
    THEN results
    ELSE LET t == chunk[i]
             c == completed[i]
             next == CASE c.kind = "data" -> (t :> c) @@ results
                       [] c.kind = "exception" /\ r = "backend" ->
                            (t :> [kind |-> "none"]) @@ results
                       [] OTHER -> results
         IN  ZipInto(r, next, chunk, completed, i + 1)

\* valid_tickers = [t.strip().upper() for t in tickers if t and isinstance(t, str)]
ValidTickers(ts) ==
    [i \in 1..Len(SelectSeq(ts, LAMBDA t : t # "")) |->
        Upper(SelectSeq(ts, LAMBDA t : t # "")[i])]

\* get_batch_stock_data(tickers) is called; m is what the provider answers
\* for each symbol while the batch runs.
BatchStart(ts, m) ==
    /\ batch.pc = "idle"
    /\ batch' = [NoBatch EXCEPT
                    !.pc = "chunk",
                    !.tickers = IF rev = "app" THEN ts ELSE ValidTickers(ts),
                    !.market = m]
    /\ UNCHANGED <<rev, now, stocks, lock, dbSet, req, lastGood, started,
                   watchlists, users, boot, history, accounts, reply, wget>>

\* One round of the chunk loop: the chunk's tasks are created, gather is
\* awaited over the tasks list, and zip(chunk, completed) fills results.
BatchChunk ==
    /\ batch.pc = "chunk"
    /\ batch.chunk * BatchSize < Len(batch.tickers)
    /\ LET chunk == Chunk(batch.tickers, batch.chunk)
           run == RunTasks(rev, [coll |-> stocks, done |-> <<>>], chunk, batch.market, now)
           completed == batch.tasks \o run.done
       IN  /\ stocks' = run.coll
           /\ batch' = [batch EXCEPT
                           !.results = ZipInto(rev, batch.results, chunk, completed, 1),
                           !.tasks = TasksAfterChunk(rev, completed),
                           !.chunk = batch.chunk + 1]
    /\ UNCHANGED <<rev, now, lock, dbSet, req, lastGood, started,
                   watchlists, users, boot, history, accounts, reply, wget>>

\* The loop is over: return results.
BatchReturn ==
    /\ batch.pc = "chunk"
    /\ batch.chunk * BatchSize >= Len(batch.tickers)
    /\ batch' = [batch EXCEPT !.pc = "returned"]
    /\ UNCHANGED <<rev, now, stocks, lock, dbSet, req, lastGood, started,
                   watchlists, users, boot, history, accounts, reply, wget>>

InitBatch ==
    /\ rev \in {"app", "backend"}
    /\ now = 0
    /\ stocks = {}
    /\ lock = NoProc
    /\ dbSet = TRUE
    /\ req = [p \in Procs |-> IdleReq]
    /\ lastGood = [s \in RawSymbols |-> NoTime]
    /\ started = 0
    /\ batch = NoBatch
    /\ watchlists = <<>>
    /\ users = {}
    /\ boot = NoBoot
    /\ accounts = <<>>
    /\ history = {}
    /\ reply = NoReply
    /\ wget = [p \in Procs |-> NoGet]

NextBatch ==
    \/ /\ batch.pc = "idle"
       /\ \E ts \in TickerLists, m \in [Canonical -> Outcomes] : BatchStart(ts, m)
    \/ BatchChunk
    \/ BatchReturn

SpecBatch == InitBatch /\ [][NextBatch]_vars

\* The quote of get-quote(t) in a batch whose cache starts empty.
BatchQuoteOk(t) == batch.market[Upper(t)] = "ok"

\* C8: every entry of the mapping pairs a ticker with the result of
\* get-quote for that same ticker.
C8_TickerPairedWithOwnQuote ==
    \A t \in DOMAIN batch.results :
       IF batch.results[t].kind = "data"
       THEN batch.results[t].symbol = Upper(t) /\ BatchQuoteOk(t)
       ELSE ~BatchQuoteOk(t)

\* C9: the batch returns, and its mapping holds a quote for every ticker
\* whose own fetch succeeded.
C9_PartialFailureIsolated ==
    batch.pc = "returned" =>
       \A i \in 1..Len(batch.tickers) :
          BatchQuoteOk(batch.tickers[i]) =>
             \E t \in DOMAIN batch.results :
                /\ Upper(t) = Upper(batch.tickers[i])
                /\ batch.results[t].kind = "data"

----------------------------------------------------------------------------
(* DatabaseService.add_to_watchlist: src/BACKEND/app/db_service.py, src/app/db_service.py *)

Usernames == {"alice", "bob"}

\* The symbols watchlist requests carry.
WatchSymbols == {"aapl", "AAPL"}

\* str(user_doc["_id"]): the id the store gave the user's document
UserId(u) == CASE u = "alice" -> "id-alice" [] u = "bob" -> "id-bob"

UserIds == {UserId(u) : u \in Usernames}

NoName == "-"

\* Mutant: $push, which appends whether or not the value is there.
Push(symbols, s) ==
    Append(symbols, s)

\* $addToSet: the value is appended unless the array already holds it.
AddToSet(symbols, s) ==
    IF \E j \in DOMAIN symbols : symbols[j] = s THEN symbols ELSE Append(symbols, s)

\* The first document update_one({"user_id": uid}, ...) matches; 0 for none.
FirstMatch(coll, uid) ==
    IF \E i \in DOMAIN coll : coll[i].user_id = uid
    THEN CHOOSE i \in DOMAIN coll :
            /\ coll[i].user_id = uid
            /\ \A j \in DOMAIN coll : coll[j].user_id = uid => i <= j
    ELSE 0

\* update_one({"user_id": uid}, {"$addToSet": {"symbols": s}, ...}, upsert=True);
\* name is what the inserted document gets from $setOnInsert.
UpdateOneAddToSet(coll, uid, s, name) ==
    IF FirstMatch(coll, uid) = 0
    THEN Append(coll, [user_id |-> uid, name |-> name, symbols |-> <<s>>])
    ELSE [coll EXCEPT ![FirstMatch(coll, uid)].symbols = AddToSet(@, s)]

\* Whether uid's watchlist documents hold s.
HasSymbol(coll, uid, s) ==
    \E i \in DOMAIN coll :
       coll[i].user_id = uid /\ \E j \in DOMAIN coll[i].symbols : coll[i].symbols[j] = s

\* What a watchlist operation left behind: the operation, who ran it (the
\* service method itself or an endpoint), its arguments, whether the store
\* was reached, whether the symbol (for get: any watchlist of the user) was
\* there before, the method's return value, the returned watchlist, and the
\* endpoint's status and message.
NoStatus == 0 - 1
NoDoc == [user_id |-> NoName, name |-> NoName, symbols |-> <<>>]

WlReply(op, via, uid, s, applied, was, ret, doc, status, body) ==
    [op |-> op, via |-> via, user_id |-> uid, symbol |-> s, applied |-> applied,
     was |-> was, ret |-> ret, doc |-> doc, status |-> status, body |-> body]

\* The backend revision: one update_one with the symbol as given; the
\* result is modified_count > 0 or upserted_id is not None.
BkAddToWatchlist(uid, s) ==
    /\ rev = "backend"
    /\ watchlists' = UpdateOneAddToSet(watchlists, uid, s, NoName)
    /\ reply' = WlReply("add", "service", uid, s, TRUE,
                        HasSymbol(watchlists, uid, s),
                        watchlists' # watchlists, NoDoc, NoStatus, "-")
    /\ UNCHANGED <<rev, now, stocks, lock, dbSet, req, lastGood, started, batch,
                   users, boot, history, accounts, wget>>

\* The app revision: get_user(username), False when there is none, else
\* one update_one with symbol.upper() and name "Default" on insert; True.
AppAddToWatchlist(u, s) ==
    /\ rev = "app"
    /\ IF u \in users
       THEN /\ watchlists' = UpdateOneAddToSet(watchlists, UserId(u), Upper(s), "Default")
            /\ reply' = WlReply("add", "service", UserId(u), Upper(s), TRUE,
                                HasSymbol(watchlists, UserId(u), Upper(s)),
                                TRUE, NoDoc, NoStatus, "-")
       ELSE /\ watchlists' = watchlists
            /\ reply' = WlReply("add", "service", NoName, Upper(s), FALSE, FALSE,
                                FALSE, NoDoc, NoStatus, "-")
    /\ UNCHANGED <<rev, now, stocks, lock, dbSet, req, lastGood, started, batch,
                   users, boot, history, accounts, wget>>

\* POST /api/watchlist/add of src/BACKEND/app/routes/watchlist.py:
\* DatabaseService() is called without its connection_string, the TypeError
\* leaves the handler and the request ends in a 500.
BkRouterAdd(uid, s) ==
    /\ rev = "backend"
    /\ reply' = WlReply("add", "router", uid, s, FALSE,
                        HasSymbol(watchlists, uid, s), FALSE, NoDoc, 500,
                        "Internal Server Error")
    /\ UNCHANGED <<rev, now, stocks, lock, dbSet, req, lastGood, started, batch,
                   watchlists, users, boot, history, accounts, wget>>

\* POST /api/watchlist/add of src/BACKEND/app/main.py: add_to_watchlist is
\* called without await, success is the coroutine object (true), the
\* coroutine never runs and the answer is the success message.
BkMainAdd(uid, s) ==
    /\ rev = "backend"
    /\ reply' = WlReply("add", "main", uid, s, FALSE,
                        HasSymbol(watchlists, uid, s), TRUE, NoDoc, 200, "Added")
    /\ UNCHANGED <<rev, now, stocks, lock, dbSet, req, lastGood, started, batch,
                   watchlists, users, boot, history, accounts, wget>>

\* $pull: every occurrence of the value leaves the array.
Pull(symbols, s) ==
    SelectSeq(symbols, LAMBDA x : x # s)

\* update_one({"user_id": uid}, {"$pull": {"symbols": s}, ...}), no upsert
UpdateOnePull(coll, uid, s) ==
    IF FirstMatch(coll, uid) = 0
    THEN coll
    ELSE [coll EXCEPT ![FirstMatch(coll, uid)].symbols = Pull(@, s)]

\* The backend revision's remove: the result is modified_count > 0.
BkRemoveFromWatchlist(uid, s) ==
    /\ rev = "backend"
    /\ watchlists' = UpdateOnePull(watchlists, uid, s)
    /\ reply' = WlReply("remove", "service", uid, s, TRUE,
                        HasSymbol(watchlists, uid, s),
                        watchlists' # watchlists, NoDoc, NoStatus, "-")
    /\ UNCHANGED <<rev, now, stocks, lock, dbSet, req, lastGood, started, batch,
                   users, boot, history, accounts, wget>>

\* DELETE /api/watchlist/remove of src/BACKEND/app/routes/watchlist.py:
\* DatabaseService() without its argument, as in the add endpoint.
BkRouterRemove(uid, s) ==
    /\ rev = "backend"
    /\ reply' = WlReply("remove", "router", uid, s, FALSE,
                        HasSymbol(watchlists, uid, s), FALSE, NoDoc, 500,
                        "Internal Server Error")
    /\ UNCHANGED <<rev, now, stocks, lock, dbSet, req, lastGood, started, batch,
                   watchlists, users, boot, history, accounts, wget>>

\* The app revision's remove returns modified_count > 0 of an update that
\* also sets last_updated: true whenever a document of the user matched.
AppRemoveRet(coll, usrs, u) ==
    u \in usrs /\ FirstMatch(coll, UserId(u)) # 0

AppRemoveFromWatchlist(u, s) ==
    /\ rev = "app"
    /\ watchlists' = IF u \in users
                     THEN UpdateOnePull(watchlists, UserId(u), Upper(s))
                     ELSE watchlists
    /\ reply' = WlReply("remove", "service", UserId(u), Upper(s), u \in users,
                        HasSymbol(watchlists, UserId(u), Upper(s)),
                        AppRemoveRet(watchlists, users, u), NoDoc, NoStatus, "-")
    /\ UNCHANGED <<rev, now, stocks, lock, dbSet, req, lastGood, started, batch,
                   users, boot, history, accounts, wget>>

\* POST /api/watchlist/remove of src/app/main.py for the logged-in user u:
\* success is answered with the "Removed" message; otherwise the
\* HTTPException(400) raised inside the try is caught by except Exception
\* and becomes a 500.
AppApiRemove(u, s) ==
    /\ rev = "app"
    /\ u \in users
    /\ watchlists' = UpdateOnePull(watchlists, UserId(u), Upper(s))
    /\ reply' = WlReply("remove", "api", UserId(u), Upper(s), TRUE,
                        HasSymbol(watchlists, UserId(u), Upper(s)),
                        AppRemoveRet(watchlists, users, u), NoDoc,
                        IF AppRemoveRet(watchlists, users, u) THEN 200 ELSE 500,
                        IF AppRemoveRet(watchlists, users, u)
                        THEN "Removed" ELSE "Failed to remove from watchlist")
    /\ UNCHANGED <<rev, now, stocks, lock, dbSet, req, lastGood, started, batch,
                   users, boot, history, accounts, wget>>

\* find_one({"user_id": uid, "name": name}): the position of the first
\* match, 0 for none.
FindByName(coll, uid, name) ==
    IF \E i \in DOMAIN coll : coll[i].user_id = uid /\ coll[i].name = name
    THEN CHOOSE i \in DOMAIN coll :
            /\ coll[i].user_id = uid /\ coll[i].name = name
            /\ \A j \in DOMAIN coll :
                  (coll[j].user_id = uid /\ coll[j].name = name) => i <= j
    ELSE 0

\* The watchlist get_watchlist makes up when it finds none.
NewWatchlist(uid, name) ==
    [user_id |-> uid, name |-> name, symbols |-> <<>>]

\* The backend revision's get_watchlist(user_id), first half: find_one by
\* user and name "Default"; a match is returned, otherwise the call goes on
\* to insert_one.
BkGetFind(p, uid) ==
    /\ rev = "backend"
    /\ wget[p].pc = "idle"
    /\ IF FindByName(watchlists, uid, "Default") # 0
       THEN /\ reply' = WlReply("get", "service", uid, NoSym, TRUE,
                                FirstMatch(watchlists, uid) # 0, TRUE,
                                watchlists[FindByName(watchlists, uid, "Default")],
                                NoStatus, "-")
            /\ wget' = wget
       ELSE /\ wget' = [wget EXCEPT ![p] = [pc |-> "insert", user_id |-> uid,
                                            was |-> FirstMatch(watchlists, uid) # 0]]
            /\ reply' = reply
    /\ UNCHANGED <<rev, now, stocks, lock, dbSet, req, lastGood, started, batch,
                   watchlists, users, boot, history, accounts>>

\* Second half: insert_one of the new empty watchlist, which is returned.
\* The backend revision never creates a unique index on watchlists (its
\* _init_indexes coroutine is not awaited), so the insert succeeds.
BkGetInsert(p) ==
    /\ rev = "backend"
    /\ wget[p].pc = "insert"
    /\ watchlists' = Append(watchlists, NewWatchlist(wget[p].user_id, "Default"))
    /\ reply' = WlReply("get", "service", wget[p].user_id, NoSym, TRUE, wget[p].was,
                        TRUE, NewWatchlist(wget[p].user_id, "Default"), NoStatus, "-")
    /\ wget' = [wget EXCEPT ![p] = NoGet]
    /\ UNCHANGED <<rev, now, stocks, lock, dbSet, req, lastGood, started, batch, users, boot, history, accounts>>

\* GET /watchlist/{name} of src/app/main.py for the logged-in user u and
\* name "Default": the app revision's get_watchlist is one find_one, None
\* for no match, which the handler answers with a 404.
AppGetSpecificWatchlist(u) ==
    /\ rev = "app"
    /\ u \in users
    /\ reply' = IF FindByName(watchlists, UserId(u), "Default") # 0
                THEN WlReply("get", "api", UserId(u), NoSym, TRUE, TRUE, TRUE,
                             watchlists[FindByName(watchlists, UserId(u), "Default")],
                             200, "watchlist")
                ELSE WlReply("get", "api", UserId(u), NoSym, TRUE,
                             FirstMatch(watchlists, UserId(u)) # 0, FALSE, NoDoc,
                             404, "Watchlist not found")
    /\ UNCHANGED <<rev, now, stocks, lock, dbSet, req, lastGood, started, batch,
                   watchlists, users, boot, history, accounts, wget>>

InitWatch ==
    /\ rev \in {"app", "backend"}
    /\ now = 0
    /\ stocks = {}
    /\ lock = NoProc
    /\ dbSet = TRUE
    /\ req = [p \in Procs |-> IdleReq]
    /\ lastGood = [s \in RawSymbols |-> NoTime]
    /\ started = 0
    /\ batch = NoBatch
    /\ watchlists = <<>>
    /\ users \in IF rev = "app" THEN SUBSET Usernames ELSE {Usernames}
    /\ boot = NoBoot
    /\ accounts = <<>>
    /\ history = {}
    /\ reply = NoReply
    /\ wget = [p \in Procs |-> NoGet]

NextWatch ==
    \/ \E uid \in UserIds, s \in WatchSymbols : BkAddToWatchlist(uid, s)
    \/ \E u \in Usernames, s \in WatchSymbols : AppAddToWatchlist(u, s)
    \/ \E uid \in UserIds, s \in WatchSymbols : BkRouterAdd(uid, s)
    \/ \E uid \in UserIds, s \in WatchSymbols : BkMainAdd(uid, s)
    \/ \E uid \in UserIds, s \in WatchSymbols : BkRemoveFromWatchlist(uid, s)
    \/ \E uid \in UserIds, s \in WatchSymbols : BkRouterRemove(uid, s)
    \/ \E u \in Usernames, s \in WatchSymbols : AppRemoveFromWatchlist(u, s)
    \/ \E u \in Usernames, s \in WatchSymbols : AppApiRemove(u, s)
    \/ \E p \in Procs, uid \in UserIds : BkGetFind(p, uid)
    \/ \E p \in Procs : BkGetInsert(p)
    \/ \E u \in Usernames : AppGetSpecificWatchlist(u)

SpecWatch == InitWatch /\ [][NextWatch]_vars

\* How many times uid's watchlist documents hold s.
SymbolCount(uid, s) ==
    Cardinality(UNION {
        {<<i, j>> : j \in {k \in DOMAIN watchlists[i].symbols :
                              watchlists[i].symbols[k] = s}} :
        i \in {n \in DOMAIN watchlists : watchlists[n].user_id = uid}})

\* C10: after any sequence of adds every symbol is in a user's watchlist at
\* most once, and right after an add of a symbol that symbol is in it
\* exactly once, also when it was there before.
C10_AddKeepsSymbolsUnique ==
    /\ \A uid \in UserIds, s \in RawSymbols : SymbolCount(uid, s) <= 1
    /\ (reply.op = "add" /\ reply.applied) =>
          SymbolCount(reply.user_id, reply.symbol) = 1

\* The same symbol has been added to a watchlist that already held it.
C10_Witness ==
    /\ reply.op = "add" /\ reply.applied /\ reply.was
    /\ SymbolCount(reply.user_id, reply.symbol) = 1

\* C11: an add request for a symbol the caller's watchlist already holds is
\* answered with a success response.
C11_RepeatedAddSucceeds ==
    (reply.op = "add" /\ reply.via # "service" /\ reply.was) =>
       reply.status = 200

\* C12: a remove request for a symbol the caller's watchlist does not hold
\* is answered without an error and differently from an actual removal,
\* and the stored watchlists stay as they were.
C12_RemoveAbsentIsNoOp ==
    [][(reply'.op = "remove" /\ reply'.via # "service" /\ ~reply'.was) =>
          /\ reply'.status = 200
          /\ reply'.body # "Removed"
          /\ watchlists' = watchlists]_vars

\* C13: a get-watchlist never answers Not-Found and returns a stored
\* watchlist; for a user who had none it is an empty one named "Default".
C13_GetCreatesDefault ==
    reply.op = "get" =>
       /\ reply.status # 404
       /\ \E i \in DOMAIN watchlists : watchlists[i] = reply.doc
       /\ ~reply.was => reply.doc = NewWatchlist(reply.user_id, "Default")

----------------------------------------------------------------------------
(* Accounts: registration                                                  *)
(*                                                                         *)
(* The users collection is accounts, a sequence of documents               *)
(* [username, email, password], password being the stored hash.  The       *)
(* repository holds four registration paths:                               *)
(*   src/BACKEND/app/auth.py     register_user   (router, POST /register)  *)
(*   src/BACKEND/app/main.py     register        (app, POST /register)     *)
(*   src/app/main.py             register_user   (app, POST /register)     *)
(*   src/main.py                 register        (same body as BACKEND's)  *)
(* The reply of an account operation carries via: "router" for auth.py's   *)
(* handlers, "main" for the handlers of a main.py.                         *)

MaxUsers == 2

Emails == {"a@x.com", "b@x.com"}
Passwords == {"pw1", "pw2"}

\* bcrypt.hashpw / pwd_context.hash: what is stored is not the plaintext.
Hash(pw) == <<"bcrypt", pw>>

\* bcrypt.checkpw / pwd_context.verify
CheckPw(pw, hashed) == hashed = Hash(pw)

UserDoc(u, e, pw) == [username |-> u, email |-> e, password |-> Hash(pw)]

\* find_one({"username": u}) on the users collection: the index of the first
\* match, 0 for None.
FindUsername(coll, u) ==
    IF \E i \in DOMAIN coll : coll[i].username = u
    THEN CHOOSE i \in DOMAIN coll :
             /\ coll[i].username = u
             /\ \A j \in DOMAIN coll : coll[j].username = u => i <= j
    ELSE 0

\* find_one({"email": e})
FindEmail(coll, e) ==
    IF \E i \in DOMAIN coll : coll[i].email = e
    THEN CHOOSE i \in DOMAIN coll :
             /\ coll[i].email = e
             /\ \A j \in DOMAIN coll : coll[j].email = e => i <= j
    ELSE 0

\* insert_one on a collection without a unique index: the document is
\* appended whatever the collection holds.  DatabaseService._init_indexes
\* (username and email unique) is called without await in __init__, so its
\* body never runs, and init_indexes of config.py has no caller.
InsertOne(coll, doc) == Append(coll, doc)

RegReply(via, u, e, status, detail) ==
    [op |-> "register", via |-> via, username |-> u, email |-> e,
     dupName |-> FindUsername(accounts, u) # 0,
     dupEmail |-> FindEmail(accounts, e) # 0,
     status |-> status, detail |-> detail]

\* get_mongo_db is an async def; auth.py calls it without await, so what it
\* binds is a coroutine object, not the database.
GetMongoDb == "coroutine"

\* db[USERS_COLLECTION] and mongo_db.users on what get_mongo_db() gave.
UsersOf(db) == IF db = "coroutine" THEN "TypeError" ELSE "collection"

\* BACKEND auth.register_user.  The whole body is inside try; line 136
\* subscripts the coroutine, the TypeError reaches except Exception and the
\* handler raises HTTPException(500).  (The HTTPException(400) of lines 137
\* and 144 are raised inside the same try and would end the same way.)
BkRegisterUser(u, e, pw) ==
    /\ rev = "backend"
    /\ reply' = IF UsersOf(GetMongoDb) = "TypeError"
                THEN RegReply("router", u, e, 500, "Error registering user")
                ELSE IF FindUsername(accounts, u) # 0 \/ FindEmail(accounts, e) # 0
                     THEN RegReply("router", u, e, 500, "Error registering user")
                     ELSE RegReply("router", u, e, 200, "")
    /\ accounts' = IF UsersOf(GetMongoDb) = "TypeError"
                      \/ FindUsername(accounts, u) # 0
                      \/ FindEmail(accounts, e) # 0
                   THEN accounts
                   ELSE InsertOne(accounts, UserDoc(u, e, pw))
    /\ UNCHANGED <<rev, now, stocks, lock, dbSet, req, lastGood, started, batch,
                   watchlists, users, boot, history, wget>>

\* BACKEND DatabaseService.create_user: hashes and inserts; it looks nothing
\* up before.
BkCreateUser(coll, u, e, pw) == InsertOne(coll, UserDoc(u, e, pw))

\* BACKEND main.register: create_user, then the success message.  create_user
\* raises no ValueError, so the 400 of line 91 is never sent.
BkMainRegister(u, e, pw) ==
    /\ rev = "backend"
    /\ Len(accounts) < MaxUsers
    /\ accounts' = BkCreateUser(accounts, u, e, pw)
    /\ reply' = RegReply("main", u, e, 200, "User created successfully")
    /\ UNCHANGED <<rev, now, stocks, lock, dbSet, req, lastGood, started, batch,
                   watchlists, users, boot, history, wget>>

\* app DatabaseService.create_user as register_user calls it, with the dict
\* user_data: find_one of a username already held raises ValueError; else
\* line 176 evaluates user.username on a dict, an AttributeError.  (Called
\* with a UserCreate it would raise KeyError at line 196, del of a key the
\* dict never had.)  Either way it raises before insert_one.
AppCreateUser(coll, u) ==
    IF FindUsername(coll, u) # 0 THEN "ValueError" ELSE "AttributeError"

\* app register_user.  The HTTPException(400) for a held username is raised
\* inside the inner try of lines 237-252, whose except Exception answers 500;
\* for a new username create_user raises and lines 278-284 answer 500.
\* (db_service is assigned at line 92, before a request is served.)
AppRegisterUser(u, e, pw) ==
    /\ rev = "app"
    /\ reply' = IF FindUsername(accounts, u) # 0
                THEN RegReply("main", u, e, 500, "Error checking existing user")
                ELSE IF AppCreateUser(accounts, u) \in {"ValueError", "AttributeError"}
                     THEN RegReply("main", u, e, 500, "Error creating user")
                     ELSE RegReply("main", u, e, 200, "User created successfully")
    /\ UNCHANGED <<rev, now, stocks, lock, dbSet, req, lastGood, started, batch,
                   watchlists, users, boot, history, accounts, wget>>

----------------------------------------------------------------------------
(* Accounts: login, tokens, token validation                               *)

TokenExpire == 3          \* ACCESS_TOKEN_EXPIRE_MINUTES = 30

\* The keys a token can be signed with: app_settings.SECRET_KEY, or any other.
Keys == {"settings", "other"}

\* The exp claims of the tokens a client presents.
Expiries == {1, 3}

\* A request without an Authorization header.
NoBearer == [sub |-> NoName, exp |-> NoTime, key |-> "-"]

\* What a client can present: nothing, or a token with or without a subject.
Bearers ==
    {NoBearer} \cup [sub : Usernames \cup {NoName}, exp : Expiries, key : Keys]

\* BACKEND auth.create_access_token: the data, exp = utcnow() + expires_delta,
\* signed with app_settings.SECRET_KEY.
CreateAccessToken(sub, t, delta) ==
    [sub |-> sub, exp |-> t + delta, key |-> "settings"]

\* jose jwt.decode(token, SECRET_KEY): the signature is checked, then exp,
\* which has passed when exp < now.
JwtDecode(tok, t) ==
    IF tok.key # "settings" \/ tok.exp < t THEN "JWTError" ELSE "payload"

\* The claim's four conditions, for the bearer of a request made at t.
ValidBearer(tok, coll, t) ==
    /\ tok # NoBearer
    /\ tok.key = "settings"
    /\ ~(tok.exp < t)
    /\ tok.sub # NoName
    /\ FindUsername(coll, tok.sub) # 0

\* The outcome of a token check: the status it ends the request with (200:
\* the request goes on) and the identity it yields.
AuthOutcome(status, detail, user) ==
    [status |-> status, detail |-> detail, user |-> user]

\* BACKEND auth.get_current_user behind oauth2_scheme.  No header: the
\* scheme answers 401.  Lines 98-105: a JWTError or a missing sub is the 401
\* credentials_exception.  Line 106 binds a coroutine and line 107 reads its
\* attribute users: an AttributeError outside any try, which the server
\* answers with 500; lines 108-110 are not reached.
BkGetCurrentUser(tok, coll, t) ==
    IF tok = NoBearer
    THEN AuthOutcome(401, "Not authenticated", NoName)
    ELSE IF JwtDecode(tok, t) = "JWTError" \/ tok.sub = NoName
         THEN AuthOutcome(401, "Could not validate credentials", NoName)
         ELSE IF UsersOf(GetMongoDb) = "TypeError"
              THEN AuthOutcome(500, "Internal Server Error", NoName)
              ELSE IF FindUsername(coll, tok.sub) = 0
                   THEN AuthOutcome(401, "Could not validate credentials", NoName)
                   ELSE AuthOutcome(200, "", tok.sub)

\* app: get_current_user of app/auth.py, as auth_middleware calls it.  It
\* yields the user of a token whose signature verifies, whose expiry has not
\* passed and whose subject is a stored user, and raises otherwise.
AppGetCurrentUser(tok, coll, t) ==
    IF ValidBearer(tok, coll, t) THEN tok.sub ELSE NoName

\* app auth_middleware on a path under /api.  Without a header, and when
\* get_current_user raises, it raises HTTPException(401).  The exception
\* leaves a function registered with @app.middleware("http"): no exception
\* handler of the application sees it, neither add_performance_headers nor
\* the server's outermost layer catches an HTTPException, and the client is
\* answered 500.
AppAuthMiddleware(tok, coll, t) ==
    IF tok = NoBearer
    THEN AuthOutcome(500, "Internal Server Error", NoName)
    ELSE IF AppGetCurrentUser(tok, coll, t) = NoName
         THEN AuthOutcome(500, "Internal Server Error", NoName)
         ELSE AuthOutcome(200, "", AppGetCurrentUser(tok, coll, t))

ValidateReply(via, tok, out) ==
    [op |-> "validate", via |-> via, bearer |-> tok,
     valid |-> ValidBearer(tok, accounts, now),
     signed |-> tok # NoBearer /\ tok.key = "settings",
     known |-> tok # NoBearer /\ tok.sub # NoName /\ FindUsername(accounts, tok.sub) # 0,
     expired |-> tok # NoBearer /\ tok.exp < now,
     early |-> tok # NoBearer /\ now < tok.exp,
     status |-> out.status, detail |-> out.detail, user |-> out.user]

\* BACKEND GET /api/validate-token
BkValidateToken(tok) ==
    /\ rev = "backend"
    /\ reply' = ValidateReply("router", tok, BkGetCurrentUser(tok, accounts, now))
    /\ UNCHANGED <<rev, now, stocks, lock, dbSet, req, lastGood, started, batch,
                   watchlists, users, boot, history, accounts, wget>>

\* app: a request to a path under /api passes auth_middleware.
AppValidateToken(tok) ==
    /\ rev = "app"
    /\ reply' = ValidateReply("middleware", tok, AppAuthMiddleware(tok, accounts, now))
    /\ UNCHANGED <<rev, now, stocks, lock, dbSet, req, lastGood, started, batch,
                   watchlists, users, boot, history, accounts, wget>>

LoginResp(status, detail, headers, token) ==
    [status |-> status, detail |-> detail, headers |-> headers, token |-> token]

\* BACKEND auth.get_user: line 58 binds a coroutine, line 59 subscripts it,
\* and the except of line 63 returns None: no user is ever found.
BkGetUser(coll, u) ==
    IF UsersOf(GetMongoDb) = "TypeError" THEN 0 ELSE FindUsername(coll, u)

\* BACKEND auth.authenticate_user: None without a user and None on a wrong
\* password.
BkAuthenticateUser(coll, u, p) ==
    IF BkGetUser(coll, u) = 0 THEN NoName
    ELSE IF ~CheckPw(p, coll[BkGetUser(coll, u)].password) THEN NoName
    ELSE u

\* BACKEND auth.login_for_access_token
BkLoginResponse(coll, u, p, t) ==
    IF BkAuthenticateUser(coll, u, p) = NoName
    THEN LoginResp(401, "Incorrect username or password", "Bearer", NoBearer)
    ELSE LoginResp(200, "", "-", CreateAccessToken(u, t, TokenExpire))

\* BACKEND DatabaseService.verify_password: False without a user, else what
\* bcrypt.checkpw says.
VerifyPassword(coll, u, p) ==
    /\ FindUsername(coll, u) # 0
    /\ CheckPw(p, coll[FindUsername(coll, u)].password)

\* A failed login that tells an unknown username from a wrong password.
BkMainLoginLeaky(coll, u, p) ==
    IF FindUsername(coll, u) = 0
    THEN LoginResp(401, "Unknown username", "-", NoBearer)
    ELSE IF ~VerifyPassword(coll, u, p)
         THEN LoginResp(401, "Incorrect password", "-", NoBearer)
         ELSE LoginResp(500, "Internal Server Error", "-", NoBearer)

\* BACKEND main.login: 401 when verify_password is False.  Else
\* create_access_token of main.py runs jwt.encode, and main.py imports no
\* jwt: the NameError is answered 500.
BkMainLoginResponse(coll, u, p) ==
    IF ~VerifyPassword(coll, u, p)
    THEN LoginResp(401, "Incorrect username or password", "-", NoBearer)
    ELSE LoginResp(500, "Internal Server Error", "-", NoBearer)

\* app: authenticate_user of app/auth.py: the user when the password
\* verifies against the stored hash, else None.
AppAuthenticateUser(coll, u, p) ==
    IF VerifyPassword(coll, u, p) THEN u ELSE NoName

\* app: create_access_token of app/auth.py: subject and an expiry a fixed
\* duration after issuance.
AppCreateAccessToken(sub, t, delta) == CreateAccessToken(sub, t, delta)

\* app login.  The HTTPException(401) of lines 307-311 is raised inside the
\* try of line 304; except Exception catches it and raises
\* HTTPException(500, "Internal server error").
AppLoginResponse(coll, u, p, t) ==
    IF AppAuthenticateUser(coll, u, p) = NoName
    THEN LoginResp(500, "Internal server error", "-", NoBearer)
    ELSE LoginResp(200, "", "-", AppCreateAccessToken(u, t, TokenExpire))

LoginReply(via, u, p, resp) ==
    [op |-> "login", via |-> via, username |-> u,
     known |-> FindUsername(accounts, u) # 0,
     pwOk |-> VerifyPassword(accounts, u, p),
     at |-> now,
     status |-> resp.status, detail |-> resp.detail,
     headers |-> resp.headers, token |-> resp.token]

BkLoginForAccessToken(u, p) ==
    /\ rev = "backend"
    /\ reply' = LoginReply("router", u, p, BkLoginResponse(accounts, u, p, now))
    /\ UNCHANGED <<rev, now, stocks, lock, dbSet, req, lastGood, started, batch,
                   watchlists, users, boot, history, accounts, wget>>

BkMainLogin(u, p) ==
    /\ rev = "backend"
    /\ reply' = LoginReply("main", u, p, BkMainLoginResponse(accounts, u, p))
    /\ UNCHANGED <<rev, now, stocks, lock, dbSet, req, lastGood, started, batch,
                   watchlists, users, boot, history, accounts, wget>>

AppLogin(u, p) ==
    /\ rev = "app"
    /\ reply' = LoginReply("main", u, p, AppLoginResponse(accounts, u, p, now))
    /\ UNCHANGED <<rev, now, stocks, lock, dbSet, req, lastGood, started, batch,
                   watchlists, users, boot, history, accounts, wget>>

----------------------------------------------------------------------------
(* GET /api/stock/{symbol}                                                 *)
(*                                                                         *)
(* ran says that the handler called the quote service, whose cache and     *)
(* provider steps are those of Spec; o is what that call came to.          *)

StockReply(via, tok, status, ran, data) ==
    [op |-> "stock", via |-> via, bearer |-> tok,
     valid |-> ValidBearer(tok, accounts, now),
     status |-> status, ran |-> ran, data |-> data]

\* BACKEND main.get_stock_data, Depends(get_current_user)
BkGetStockData(tok, o) ==
    /\ rev = "backend"
    /\ reply' = IF BkGetCurrentUser(tok, accounts, now).status # 200
                THEN StockReply("depends", tok,
                                BkGetCurrentUser(tok, accounts, now).status, FALSE, FALSE)
                ELSE StockReply("depends", tok,
                                IF o = "error" THEN 500 ELSE 200, TRUE, o = "ok")
    /\ UNCHANGED <<rev, now, stocks, lock, dbSet, req, lastGood, started, batch,
                   watchlists, users, boot, history, accounts, wget>>

\* BACKEND main.get_stock: no dependency on a user.  The name get_stock_data
\* it calls is the handler of line 103, which calls the quote service.  The
\* HTTPException(404) for no data is raised inside the try and comes out 500.
BkGetStock(tok, o) ==
    /\ rev = "backend"
    /\ reply' = StockReply("none", tok, IF o = "ok" THEN 200 ELSE 500, TRUE, o = "ok")
    /\ UNCHANGED <<rev, now, stocks, lock, dbSet, req, lastGood, started, batch,
                   watchlists, users, boot, history, accounts, wget>>

\* app get_stock_data behind auth_middleware.
AppGetStock(tok, o) ==
    /\ rev = "app"
    /\ reply' = IF AppAuthMiddleware(tok, accounts, now).status # 200
                THEN StockReply("middleware", tok,
                                AppAuthMiddleware(tok, accounts, now).status, FALSE, FALSE)
                ELSE StockReply("middleware", tok,
                                IF o = "error" THEN 500 ELSE 200, TRUE, o = "ok")
    /\ UNCHANGED <<rev, now, stocks, lock, dbSet, req, lastGood, started, batch,
                   watchlists, users, boot, history, accounts, wget>>

----------------------------------------------------------------------------

\* The users collection may hold an account when the behaviour starts.
InitAuth ==
    /\ rev \in {"app", "backend"}
    /\ now = 0
    /\ stocks = {}
    /\ lock = NoProc
    /\ dbSet = TRUE
    /\ req = [p \in Procs |-> IdleReq]
    /\ lastGood = [s \in RawSymbols |-> NoTime]
    /\ started = 0
    /\ batch = NoBatch
    /\ watchlists = <<>>
    /\ users = {}
    /\ boot = NoBoot
    /\ accounts \in {<<>>, <<UserDoc("alice", "a@x.com", "pw1")>>}
    /\ history = {}
    /\ reply = NoReply
    /\ wget = [p \in Procs |-> NoGet]

NextAuth ==
    \/ Tick
    \/ /\ rev = "backend"
       /\ \E u \in Usernames, e \in Emails : BkRegisterUser(u, e, "pw1")
    \/ /\ rev = "backend"
       /\ \E u \in Usernames, e \in Emails : BkMainRegister(u, e, "pw1")
    \/ /\ rev = "app"
       /\ \E u \in Usernames, e \in Emails : AppRegisterUser(u, e, "pw1")
    \/ /\ rev = "backend"
       /\ \E u \in Usernames, p \in Passwords : BkLoginForAccessToken(u, p)
    \/ /\ rev = "backend"
       /\ \E u \in Usernames, p \in Passwords : BkMainLogin(u, p)
    \/ /\ rev = "app"
       /\ \E u \in Usernames, p \in Passwords : AppLogin(u, p)
    \/ /\ rev = "backend"
       /\ \E tok \in Bearers : BkValidateToken(tok)
    \/ /\ rev = "app"
       /\ \E tok \in Bearers : AppValidateToken(tok)
    \/ /\ rev = "backend"
       /\ \E tok \in Bearers, o \in Outcomes : BkGetStockData(tok, o)
    \/ /\ rev = "backend"
       /\ \E tok \in Bearers, o \in Outcomes : BkGetStock(tok, o)
    \/ /\ rev = "app"
       /\ \E tok \in Bearers, o \in Outcomes : AppGetStock(tok, o)

SpecAuth == InitAuth /\ [][NextAuth]_vars

(* C14: a registration whose username is already registered, or whose email  *)
(* is already registered under another username, fails with a Conflict       *)
(* (400 or 409) response: it is neither a success nor a 500.                 *)
C14_DuplicateIsConflict ==
    (reply.op = "register" /\ (reply.dupName \/ reply.dupEmail))
        => reply.status \in {400, 409}

(* C15: whatever registration requests have run, in whatever order, no two   *)
(* stored user documents share a username and no two share an email.         *)
C15_UsernameAndEmailUnique ==
    \A i, j \in DOMAIN accounts :
        i # j => /\ accounts[i].username # accounts[j].username
                 /\ accounts[i].email # accounts[j].email

(* C16: a token issued at login at time T carries the expiry T + W, W the    *)
(* configured duration; presented by a stored user, it is accepted at every  *)
(* time before T + W and rejected with 401 at every time after T + W.        *)
C16_TokenValidUntilExpiry ==
    /\ (reply.op = "login" /\ reply.status = 200)
           => reply.token = [sub |-> reply.username, exp |-> reply.at + TokenExpire,
                             key |-> "settings"]
    /\ (reply.op = "validate" /\ reply.signed /\ reply.known /\ reply.early)
           => (reply.status = 200 /\ reply.user = reply.bearer.sub)
    /\ (reply.op = "validate" /\ reply.signed /\ reply.known /\ reply.expired)
           => reply.status = 401

(* C17: token validation yields an identity only for a bearer whose          *)
(* signature verifies, whose expiry has not passed, whose subject is present *)
(* and is a stored user, and then it is that user; every other bearer, and   *)
(* no bearer, gets 401 and no identity.                                      *)
C17_IdentityOnlyFromValidToken ==
    reply.op = "validate" =>
       /\ reply.user # NoName => (reply.valid /\ reply.user = reply.bearer.sub)
       /\ ~reply.valid => (reply.status = 401 /\ reply.user = NoName)

(* C18: a login whose credentials fail verification (unknown username or     *)
(* wrong password) is answered 401, never 500, and returns no token.         *)
C18_BadCredentialsAre401 ==
    (reply.op = "login" /\ ~reply.pwOk)
        => (reply.status = 401 /\ reply.token = NoBearer)

\* The users collection without the documents of u.
Unregister(coll, u) == SelectSeq(coll, LAMBDA d : d.username # u)

\* What each login handler of the revision answers to (u, p).
LoginResponses(coll, u, p, t) ==
    IF rev = "app"
    THEN <<AppLoginResponse(coll, u, p, t)>>
    ELSE <<BkLoginResponse(coll, u, p, t), BkMainLoginResponse(coll, u, p)>>

(* C19: for every username u and password p, the login response (status,     *)
(* message, headers, token) when u is registered and p is wrong is the one   *)
(* given when u is not registered.                                           *)
C19_FailedLoginIndistinguishable ==
    \A u \in Usernames, p \in Passwords :
        (FindUsername(accounts, u) # 0 /\ ~VerifyPassword(accounts, u, p))
            => LoginResponses(accounts, u, p, now)
                   = LoginResponses(Unregister(accounts, u), u, p, now)

\* A registered user was refused for a wrong password, with the answer an
\* unregistered user gets.
C19_Witness ==
    /\ reply.op = "login"
    /\ reply.via = "main"
    /\ rev = "backend"
    /\ reply.known
    /\ ~reply.pwOk
    /\ reply.status = 401
    /\ LoginResp(reply.status, reply.detail, reply.headers, reply.token)
           = BkMainLoginResponse(Unregister(accounts, reply.username),
                                 reply.username, "pw2")

(* C20: a response to GET /api/stock/{symbol} carries quote data only if the *)
(* request presented a bearer that passes token validation; a request        *)
(* without one is answered 401 and the quote service is not called.          *)
C20_QuoteNeedsValidToken ==
    reply.op = "stock" =>
       /\ reply.data => reply.valid
       /\ ~reply.valid => (reply.status = 401 /\ ~reply.ran)

----------------------------------------------------------------------------
(* Completion of get-quote invocations                                     *)
(*                                                                         *)
(* The steps of the program are taken when they are enabled; the answer of *)
(* the provider (AppFetch; in the backend the blocking ticker.info inside  *)
(* BkRead) may never come.  No get_stock_data wraps a call in a timeout,   *)
(* so no step of the program ends a pending provider call.                 *)

InitLive == Init /\ rev \in {"app", "backend"}

NextLive ==
    \/ Tick
    \/ \E p \in Procs : Return(p)
    \/ AppInitDbService
    \/ \E p \in Procs : AppStart(p, "AAPL")
    \/ \E p \in Procs : AppAcquire(p)
    \/ \E p \in Procs : AppFind(p)
    \/ \E p \in Procs, o \in Outcomes : AppFetch(p, o)
    \/ \E p \in Procs : AppStore(p)
    \/ \E p \in Procs : BkStart(p, "AAPL", "main")
    \/ \E p \in Procs, o \in Outcomes : BkRead(p, o)
    \/ \E p \in Procs : BkStore(p)

FairLive ==
    \A p \in Procs :
        /\ WF_vars(AppAcquire(p))
        /\ WF_vars(AppFind(p))
        /\ WF_vars(AppStore(p))
        /\ WF_vars(BkStore(p))
        /\ WF_vars(Return(p))

SpecLive == InitLive /\ [][NextLive]_vars /\ FairLive

(* C21: every get-quote invocation eventually completes, with a result or an *)
(* error, even when the provider never answers.                              *)
C21_QuoteEventuallyCompletes ==
    \A p \in Procs : (req[p].pc # "idle") ~> (req[p].pc = "done")

----------------------------------------------------------------------------
(* The life of a cache entry, app revision                                 *)

\* init_mongodb, lines 99-106, when the application (re)starts: no request
\* is being served yet, and delete_many({}) empties the stocks collection.
AppClearCache ==
    /\ rev = "app"
    /\ \A p \in Procs : req[p].pc = "idle"
    /\ stocks' = {}
    /\ UNCHANGED <<rev, now, lock, dbSet, req, lastGood, started, batch, watchlists,
                   users, boot, history, accounts, reply, wget>>

InitEntry == InitBatch /\ rev = "app"

NextEntry ==
    \/ Tick
    \/ \E p \in Procs : Return(p)
    \/ \E p \in Procs, s \in RawSymbols : AppStart(p, s)
    \/ \E p \in Procs : AppAcquire(p)
    \/ \E p \in Procs : AppFind(p)
    \/ \E p \in Procs, o \in Outcomes : AppFetch(p, o)
    \/ \E p \in Procs : AppStore(p)
    \/ AppTtlMonitor
    \/ AppClearCache

SpecEntry == InitEntry /\ [][NextEntry]_vars

\* The state at time t of the entry of symbol s in the collection coll.
EntryState(coll, s, t) ==
    IF Cached(coll, s) = {} THEN "absent"
    ELSE IF AppFindFresh(coll, s, t) # {} THEN "fresh"
    ELSE "stale"

\* An entry that is not Fresh becomes Fresh only in the write-back of a
\* successful fetch; a Fresh entry becomes Stale only as time passes.
EntryToFreshAndStale(s) ==
    /\ (EntryState(stocks, s, now) # "fresh" /\ EntryState(stocks', s, now') = "fresh")
           => \E p \in Procs : Writes(p) /\ req'[p].wk = s /\ req'[p].out = "ok"
    /\ (EntryState(stocks, s, now) = "fresh" /\ EntryState(stocks', s, now') = "stale")
           => (now' # now /\ stocks' = stocks)

----------------------------------------------------------------------------
(* History and chart requests                                              *)
(*                                                                         *)
(* A request is one step here: the requests are made one after another.    *)
(* lastGood[s] is the time of the newest request for s that called the     *)
(* provider and got a series.  o is what the provider would answer if it   *)
(* were called.                                                            *)

HistWindow == 3           \* timedelta(hours=24)

\* The period descriptors a caller passes.
Periods == {"1mo", "6mo"}

\* The reply to a request for (s, per) made now: what the provider answered
\* (out, "none" when it was not called), the period it was called with
\* (passed), and the period of the series the
\* reply carries (series), "-" for none.  status is NoStatus for a service
\* method called without a handler.
HistReply(via, s, per, out, passed, series, status) ==
    [op |-> "history", via |-> via, symbol |-> s, period |-> per,
     prior |-> lastGood[Upper(s)], at |-> now,
     out |-> out, called |-> out # "none", passed |-> passed, series |-> series, status |-> status]

HistGood(s, rep) ==
    [lastGood EXCEPT ![Upper(s)] = IF rep.called /\ rep.series # "-" THEN now ELSE @]

\* app: find_one({"symbol": ticker.upper(), "last_updated": {"$gt": now - 24 h}})
HistFindFresh(coll, ticker, t) ==
    {d \in coll : d.symbol = Upper(ticker) /\ d.at > t - HistWindow}

\* app get_stock_chart_data (main.py) over StockService.get_stock_history.
\* A fresh document of the symbol is returned whatever period it was fetched
\* for.  Else stock.history(period=period); the series is upserted by symbol.
\* An empty series returns None, for which the handler raises
\* HTTPException(404) inside its own try: except Exception answers 500.
AppGetStockChartData(s, per, o) ==
    /\ rev = "app"
    /\ LET hit == HistFindFresh(history, s, now)
           rep == IF hit # {}
                  THEN HistReply("chart", s, per, "none", "-",
                                 (CHOOSE d \in hit : TRUE).period, 200)
                  ELSE IF o = "ok"
                       THEN HistReply("chart", s, per, o, per, per, 200)
                       ELSE HistReply("chart", s, per, o, per, "-", 500)
       IN  /\ reply' = rep
           /\ lastGood' = HistGood(s, rep)
           /\ history' = IF hit = {} /\ o = "ok"
                         THEN UpdateOneUpsert(history, Upper(s),
                                  [symbol |-> Upper(s), period |-> per, at |-> now])
                         ELSE history
    /\ UNCHANGED <<rev, now, stocks, lock, dbSet, req, started, batch, watchlists,
                   users, boot, accounts, wget>>

\* BACKEND get_stock_chart (main.py) over the module function
\* get_stock_chart_data, which calls stock_service.get_stock_chart_data(symbol)
\* without the period: the provider is asked for the default "6mo".  Nothing
\* is cached.  For an empty series the service raises HTTPException(404),
\* which the handler's except Exception answers with 500.
BkGetStockChart(s, per, o) ==
    /\ rev = "backend"
    /\ LET rep == IF o = "ok"
                  THEN HistReply("chart", s, per, o, "6mo", "6mo", 200)
                  ELSE HistReply("chart", s, per, o, "6mo", "-", 500)
       IN  /\ reply' = rep
           /\ lastGood' = HistGood(s, rep)
    /\ UNCHANGED <<rev, now, stocks, lock, dbSet, req, started, batch, watchlists,
                   users, boot, accounts, history, wget>>

\* BACKEND StockService.get_stock_history: ticker.history(period=period) on
\* every call.  The HTTPException(404) for an empty series is raised inside
\* the try, and except Exception raises HTTPException(500).
BkGetStockHistory(s, per, o) ==
    /\ rev = "backend"
    /\ LET rep == IF o = "ok"
                  THEN HistReply("history", s, per, o, per, per, 200)
                  ELSE HistReply("history", s, per, o, per, "-", 500)
       IN  /\ reply' = rep
           /\ lastGood' = HistGood(s, rep)
    /\ UNCHANGED <<rev, now, stocks, lock, dbSet, req, started, batch, watchlists,
                   users, boot, accounts, history, wget>>

\* services StockService.get_stock_history: ticker.history(period=period) on
\* every call; None for an empty series and for an exception.
SvcGetStockHistory(s, per, o) ==
    /\ rev = "services"
    /\ LET rep == HistReply("service", s, per, o, per,
                            IF o = "ok" THEN per ELSE "-", NoStatus)
       IN  /\ reply' = rep
           /\ lastGood' = HistGood(s, rep)
    /\ UNCHANGED <<rev, now, stocks, lock, dbSet, req, started, batch, watchlists,
                   users, boot, accounts, history, wget>>

InitHist ==
    /\ rev \in Revisions
    /\ now = 0
    /\ stocks = {}
    /\ lock = NoProc
    /\ dbSet = TRUE
    /\ req = [p \in Procs |-> IdleReq]
    /\ lastGood = [s \in RawSymbols |-> NoTime]
    /\ started = 0
    /\ batch = NoBatch
    /\ watchlists = <<>>
    /\ users = {}
    /\ boot = NoBoot
    /\ accounts = <<>>
    /\ history = {}
    /\ reply = NoReply
    /\ wget = [p \in Procs |-> NoGet]

NextHist ==
    \/ Tick
    \/ /\ rev = "app"
       /\ \E s \in RawSymbols, per \in Periods, o \in Outcomes : AppGetStockChartData(s, per, o)
    \/ /\ rev = "backend"
       /\ \E s \in RawSymbols, per \in Periods, o \in Outcomes : BkGetStockChart(s, per, o)
    \/ /\ rev = "backend"
       /\ \E s \in RawSymbols, per \in Periods, o \in Outcomes : BkGetStockHistory(s, per, o)
    \/ /\ rev = "services"
       /\ \E s \in RawSymbols, per \in Periods, o \in Outcomes : SvcGetStockHistory(s, per, o)

SpecHist == InitHist /\ [][NextHist]_vars

(* C23: a history request for a symbol made within the one-day window after  *)
(* a request for the same symbol that fetched a series makes no provider     *)
(* call: it is served from the cache.                                        *)
C23_SecondHistoryFromCache ==
    (reply.op = "history" /\ reply.prior # NoTime /\ reply.at - reply.prior < HistWindow)
        => ~reply.called

(* C24: a chart or history request for which the provider returns an empty   *)
(* series is answered 404, never 500.                                        *)
C24_EmptySeriesIs404 ==
    (reply.op = "history" /\ reply.status # NoStatus
        /\ reply.called /\ reply.series = "-" /\ reply.out = "empty")
        => reply.status = 404

(* C28: the series returned for a request (symbol, period) is the series of  *)
(* that period, and the period the provider is called with is the period     *)
(* given by the caller.                                                      *)
C28_HistoryOfRequestedPeriod ==
    reply.op = "history" =>
       /\ reply.series # "-" => reply.series = reply.period
       /\ reply.called => reply.passed = reply.period

----------------------------------------------------------------------------
(* Watchlist data and ownership                                            *)
(*                                                                         *)
(*   src/app/main.py      get_watchlist_data  (GET /api/watchlist/data)    *)
(*   src/BACKEND/app/main.py get_watchlist_data (GET /api/watchlist/data)  *)
(*   src/app/main.py      add_to_watchlist    (POST /watchlist/add/{s})    *)
(*   src/app/main.py      remove_from_watchlist (DELETE /watchlist/remove) *)
(*   src/BACKEND/app/main.py remove_from_watchlist (DELETE /api/...)       *)

\* The provider outcomes of a watchlist-data request: every fetch of the
\* request succeeds, or every fetch fails.
DataOutcomes == {"ok", "error"}

\* The symbols the watchlist documents of uid hold.
HeldBy(coll, uid) ==
    {s \in WatchSymbols : HasSymbol(coll, uid, s)}

\* The documents of uid, in store order.
DocsOf(coll, uid) ==
    SelectSeq(coll, LAMBDA d : d.user_id = uid)

\* The symbols of the quotes fetched for a list of symbols: a snapshot
\* carries ticker.upper().
QuoteSymbols(symbols) ==
    [j \in DOMAIN symbols |-> Upper(symbols[j])]

\* The store after the quotes of symbols[i..] were written to it.
RECURSIVE StoreQuotes(_, _, _, _)
StoreQuotes(coll, symbols, i, t) ==
    IF i > Len(symbols)
    THEN coll
    ELSE StoreQuotes(UpdateOneUpsert(coll, Upper(symbols[i]),
                                     [symbol |-> Upper(symbols[i]), at |-> t]),
                     symbols, i + 1, t)

\* What a watchlist-data request left behind, in the shape of WlReply plus
\* the symbols the user's watchlist held, whether the fetches succeeded and
\* the symbols of the returned quotes.
DataReply(uid, held, o, quotes, status) ==
    [op |-> "data", via |-> "api", user_id |-> uid, symbol |-> NoSym,
     applied |-> TRUE, was |-> held # {}, ret |-> TRUE, doc |-> NoDoc,
     status |-> status, body |-> "-", held |-> held, fetched |-> o = "ok",
     quotes |-> quotes]

\* The app revision's get_user_watchlist(username): [] for an unknown
\* user, else the symbols of the first document find_one({"user_id": ...})
\* matches, [] for none.
AppGetUserWatchlist(coll, usrs, u) ==
    IF u \in usrs /\ FirstMatch(coll, UserId(u)) # 0
    THEN coll[FirstMatch(coll, UserId(u))].symbols
    ELSE <<>>

\* GET /api/watchlist/data of src/app/main.py for the logged-in user u:
\* one get_stock_data per symbol, a quote appended when one came back, a
\* failed fetch skipped; the answer is 200 with the quotes.
AppGetWatchlistData(u, o) ==
    /\ rev = "app"
    /\ u \in users
    /\ LET symbols == AppGetUserWatchlist(watchlists, users, u)
           quotes == IF o = "ok" THEN QuoteSymbols(symbols) ELSE <<>>
       IN  /\ stocks' = IF o = "ok" THEN StoreQuotes(stocks, symbols, 1, now) ELSE stocks
           /\ reply' = DataReply(UserId(u), HeldBy(watchlists, UserId(u)), o, quotes, 200)
    /\ UNCHANGED <<rev, now, lock, dbSet, req, lastGood, started, batch,
                   watchlists, users, boot, history, accounts, wget>>

\* GET /api/watchlist/data of src/BACKEND/app/main.py for the user uid:
\* get_watchlist(uid) finds the watchlist named "Default" or inserts an
\* empty one; one get_stock_data per symbol of it; an HTTPException of a
\* failed fetch is caught by except Exception and answered with a 500.
BkGetWatchlistData(uid, o) ==
    /\ rev = "backend"
    /\ LET idx == FindByName(watchlists, uid, "Default")
           symbols == IF idx = 0 THEN <<>> ELSE watchlists[idx].symbols
           failed == o # "ok" /\ symbols # <<>>
       IN  /\ watchlists' = IF idx = 0
                            THEN Append(watchlists, NewWatchlist(uid, "Default"))
                            ELSE watchlists
           /\ stocks' = IF o = "ok" THEN StoreQuotes(stocks, symbols, 1, now) ELSE stocks
           /\ reply' = DataReply(uid, HeldBy(watchlists, uid), o,
                                 IF failed THEN <<>> ELSE QuoteSymbols(symbols),
                                 IF failed THEN 500 ELSE 200)
    /\ UNCHANGED <<rev, now, lock, dbSet, req, lastGood, started, batch,
                   users, boot, history, accounts, wget>>

\* POST /watchlist/add/{symbol} of src/app/main.py for the logged-in user
\* u: db_service.add_to_watchlist(str(current_user.id), symbol) hands the
\* user's id to a method that looks its argument up as a username.  When no
\* user has that name the method returns False, and the HTTPException(400)
\* raised inside the try becomes a 500.
AppPathAdd(u, s) ==
    /\ rev = "app"
    /\ u \in users
    /\ LET found == UserId(u) \in users
       IN  /\ watchlists' = IF found
                            THEN UpdateOneAddToSet(watchlists, UserId(UserId(u)),
                                                   Upper(s), "Default")
                            ELSE watchlists
           /\ reply' = WlReply("add", "path", UserId(u), Upper(s), found,
                               HasSymbol(watchlists, UserId(u), Upper(s)), found,
                               NoDoc, IF found THEN 200 ELSE 500,
                               IF found THEN "Added" ELSE "Failed to add to watchlist")
    /\ UNCHANGED <<rev, now, stocks, lock, dbSet, req, lastGood, started, batch,
                   users, boot, history, accounts, wget>>

\* DELETE /watchlist/remove/{symbol} of src/app/main.py: the same call
\* with the user's id as the username; False is answered with a 400.
AppPathRemove(u, s) ==
    /\ rev = "app"
    /\ u \in users
    /\ LET found == UserId(u) \in users
       IN  /\ watchlists' = IF found
                            THEN UpdateOnePull(watchlists, UserId(UserId(u)), Upper(s))
                            ELSE watchlists
           /\ reply' = WlReply("remove", "path", UserId(u), Upper(s), found,
                               HasSymbol(watchlists, UserId(u), Upper(s)),
                               found /\ AppRemoveRet(watchlists, users, UserId(u)),
                               NoDoc,
                               IF found /\ AppRemoveRet(watchlists, users, UserId(u))
                               THEN 200 ELSE 400,
                               IF found /\ AppRemoveRet(watchlists, users, UserId(u))
                               THEN "Removed" ELSE "Failed to remove from watchlist")
    /\ UNCHANGED <<rev, now, stocks, lock, dbSet, req, lastGood, started, batch,
                   users, boot, history, accounts, wget>>

\* DELETE /api/watchlist/remove of src/BACKEND/app/main.py:
\* remove_from_watchlist is called without await, as in the add endpoint:
\* the coroutine never runs and the answer is the success message.
BkMainRemove(uid, s) ==
    /\ rev = "backend"
    /\ reply' = WlReply("remove", "main", uid, s, FALSE,
                        HasSymbol(watchlists, uid, s), TRUE, NoDoc, 200, "Removed")
    /\ UNCHANGED <<rev, now, stocks, lock, dbSet, req, lastGood, started, batch,
                   watchlists, users, boot, history, accounts, wget>>

\* Every user is registered; the watchlist store starts empty.
InitOwn ==
    /\ InitWatch
    /\ users = Usernames

\* The service methods and endpoints of the watchlist part, the get of
\* the backend revision run by one caller at a time.
NextOwn ==
    \/ \E uid \in UserIds, s \in WatchSymbols : BkAddToWatchlist(uid, s)
    \/ \E u \in Usernames, s \in WatchSymbols : AppAddToWatchlist(u, s)
    \/ \E uid \in UserIds, s \in WatchSymbols : BkRouterAdd(uid, s)
    \/ \E uid \in UserIds, s \in WatchSymbols : BkMainAdd(uid, s)
    \/ \E uid \in UserIds, s \in WatchSymbols : BkRemoveFromWatchlist(uid, s)
    \/ \E uid \in UserIds, s \in WatchSymbols : BkRouterRemove(uid, s)
    \/ \E uid \in UserIds, s \in WatchSymbols : BkMainRemove(uid, s)
    \/ \E u \in Usernames, s \in WatchSymbols : AppRemoveFromWatchlist(u, s)
    \/ \E u \in Usernames, s \in WatchSymbols : AppApiRemove(u, s)
    \/ \E u \in Usernames, s \in WatchSymbols : AppPathAdd(u, s)
    \/ \E u \in Usernames, s \in WatchSymbols : AppPathRemove(u, s)
    \/ \E uid \in UserIds : BkGetFind(1, uid)
    \/ BkGetInsert(1)
    \/ \E u \in Usernames : AppGetSpecificWatchlist(u)
    \/ \E u \in Usernames, o \in DataOutcomes : AppGetWatchlistData(u, o)
    \/ \E uid \in UserIds, o \in DataOutcomes : BkGetWatchlistData(uid, o)

SpecOwn == InitOwn /\ [][NextOwn]_vars

\* The symbols a sequence holds.
Range(q) == {q[j] : j \in DOMAIN q}

\* C25: when every fetch succeeds, the watchlist-data request answers with
\* quotes for exactly the symbols the caller's watchlist holds, one quote
\* per symbol.
C25_DataIsExactlyWatchlist ==
    (reply.op = "data" /\ reply.fetched) =>
       /\ reply.status = 200
       /\ Range(reply.quotes) = {Upper(s) : s \in reply.held}
       /\ \A i, j \in DOMAIN reply.quotes :
             reply.quotes[i] = reply.quotes[j] => i = j

\* The user on whose behalf the step that led to reply ran.
OnBehalfOf(rep) == IF rep.op \in {"add", "remove", "get", "data"} THEN rep.user_id ELSE NoName

\* C26: a watchlist operation for user U leaves every other user's stored
\* watchlists as they were, and after an add (a remove) through an
\* endpoint for U, U's watchlist holds (no longer holds) the symbol.
C26_OwnWatchlistOnly ==
    [][/\ \A v \in UserIds :
             v # OnBehalfOf(reply') => DocsOf(watchlists', v) = DocsOf(watchlists, v)
       /\ (reply'.op = "add" /\ reply'.via # "service") =>
             HasSymbol(watchlists', reply'.user_id, reply'.symbol)
       /\ (reply'.op = "remove" /\ reply'.via # "service") =>
             ~HasSymbol(watchlists', reply'.user_id, reply'.symbol)]_vars

\* The frame half of C26 alone.
OthersUntouched ==
    [][\A v \in UserIds :
          v # OnBehalfOf(reply') => DocsOf(watchlists', v) = DocsOf(watchlists, v)]_vars

----------------------------------------------------------------------------
(* The fields of a snapshot                                                *)
(*                                                                         *)
(* A field of the provider's info dictionary is missing, None ("null"),    *)
(* float('nan'), 0 ("zero") or another finite number ("num").  A field of  *)
(* the snapshot is "zero", "num", "nan" or, for an optional field that is  *)
(* None, "absent".                                                         *)

FieldValues == {"missing", "null", "nan", "zero", "num"}

\* The payloads: currentPrice, regularMarketPrice, previousClose, the
\* volume and trailingPE.
Payloads == [price : FieldValues, alt : FieldValues, close : FieldValues,
             volume : FieldValues, pe : FieldValues]

\* info.get(key, default)
Get(v, default) == IF v = "missing" THEN default ELSE v

\* bool(x): None and 0 are false, a NaN and any other number are true
Truthy(v) == v \in {"nan", "num"}

\* a or b
Or(a, b) == IF Truthy(a) THEN a ELSE b

\* float(x): TypeError for None, the number (NaN included) otherwise
ToFloat(v) == IF v = "null" THEN "TypeError" ELSE v

\* int(x): TypeError for None, ValueError for a NaN
ToInt(v) == CASE v = "null" -> "TypeError" [] v = "nan" -> "ValueError" [] OTHER -> v

\* Whether a conversion raised.
Raised(v) == v \in {"TypeError", "ValueError"}

\* if isinstance(value, float) and pd.isna(value): stock_data[key] = 0.0
NanToZero(v) == IF v = "nan" THEN "zero" ELSE v

\* The result of building a snapshot: the outcome ("ok", "none" for a
\* returned None, "http500") and the fields.
NoFields == [price |-> "-", close |-> "-", volume |-> "-", pe |-> "-"]

\* src/app/stock_service.py: the StockData constructor inside
\* try ... except (ValueError, TypeError): return None.
AppSnapshot(info) ==
    LET f == [price  |-> ToFloat(Get(info.price, "zero")),
              close  |-> ToFloat(Get(info.close, "zero")),
              volume |-> ToInt(Get(info.volume, "zero")),
              pe     |-> IF Truthy(Get(info.pe, "null"))
                         THEN ToFloat(Get(info.pe, "zero")) ELSE "absent"]
    IN  IF \E k \in DOMAIN f : Raised(f[k])
        THEN [out |-> "none", f |-> NoFields]
        ELSE [out |-> "ok", f |-> f]

\* src/BACKEND/app/stock_service.py: the stock_data dictionary, then the
\* NaN loop over its float values; an exception becomes HTTPException(500).
BkSnapshot(info) ==
    LET f == [price  |-> ToFloat(Or(Get(info.price, "zero"), Get(info.alt, "zero"))),
              close  |-> ToFloat(Get(info.close, "zero")),
              volume |-> ToInt(Get(info.volume, "zero")),
              pe     |-> ToFloat(Or(Get(info.pe, "zero"), "zero"))]
    IN  IF \E k \in DOMAIN f : Raised(f[k])
        THEN [out |-> "http500", f |-> NoFields]
        ELSE [out |-> "ok",
              f |-> [price |-> NanToZero(f.price), close |-> NanToZero(f.close),
                     volume |-> f.volume, pe |-> NanToZero(f.pe)]]

\* get_stock_data of the app revision builds the snapshot of the payload
\* the provider returned.
AppBuildSnapshot ==
    /\ rev = "app"
    /\ reply.op = "payload"
    /\ reply' = [op |-> "fields", info |-> reply.info, snap |-> AppSnapshot(reply.info)]
    /\ UNCHANGED <<rev, now, stocks, lock, dbSet, req, lastGood, started, batch,
                   watchlists, users, boot, history, accounts, wget>>

\* get_stock_data of the backend revision.
BkBuildSnapshot ==
    /\ rev = "backend"
    /\ reply.op = "payload"
    /\ reply' = [op |-> "fields", info |-> reply.info, snap |-> BkSnapshot(reply.info)]
    /\ UNCHANGED <<rev, now, stocks, lock, dbSet, req, lastGood, started, batch,
                   watchlists, users, boot, history, accounts, wget>>

\* The provider has returned a non-empty payload.
InitFields ==
    /\ rev \in {"app", "backend"}
    /\ now = 0
    /\ stocks = {}
    /\ lock = NoProc
    /\ dbSet = TRUE
    /\ req = [p \in Procs |-> IdleReq]
    /\ lastGood = [s \in RawSymbols |-> NoTime]
    /\ started = 0
    /\ batch = NoBatch
    /\ watchlists = <<>>
    /\ users = Usernames
    /\ boot = NoBoot
    /\ accounts = <<>>
    /\ history = {}
    /\ reply \in {[op |-> "payload", info |-> i] : i \in Payloads}
    /\ wget = [p \in Procs |-> NoGet]

NextFields == AppBuildSnapshot \/ BkBuildSnapshot

SpecFields == InitFields /\ [][NextFields]_vars

\* A field the provider did not supply as a number.
Invalid(v) == v \in {"missing", "null", "nan"}

\* C27: a payload with missing, null or NaN fields still yields a
\* snapshot; a required field that was invalid is 0 (the price when
\* neither price key supplied a number), an invalid optional field is
\* absent, and no field is NaN.
C27_InvalidFieldsDefaulted ==
    reply.op = "fields" =>
       /\ reply.snap.out = "ok"
       /\ (Invalid(reply.info.price) /\ Invalid(reply.info.alt)) => reply.snap.f.price = "zero"
       /\ Invalid(reply.info.close) => reply.snap.f.close = "zero"
       /\ Invalid(reply.info.volume) => reply.snap.f.volume = "zero"
       /\ Invalid(reply.info.pe) => reply.snap.f.pe = "absent"
       /\ \A k \in DOMAIN reply.snap.f : reply.snap.f[k] # "nan"

----------------------------------------------------------------------------
(* app: init_mongodb of src/app/config.py                                  *)
(*                                                                         *)
(* boot.pc is where the call stands: "idle", inside an attempt at "ping",  *)
(* "drop", "create" or "clear", asleep between attempts at "sleep", and    *)
(* "returned" or "raised" at its end.  boot.attempts, boot.failures and    *)
(* boot.sleeps count the attempts begun, the attempts that ended in the    *)
(* except clause and the asyncio.sleep calls made; boot.step counts the    *)
(* create_index calls the current attempt has completed and boot.indexes   *)
(* the indexes the store holds.                                            *)

Retries == 3              \* retries = 3
RetryDelay == 2           \* retry_delay = 2
NumIndexes == 7           \* the create_index calls of one attempt

\* Mutant: the last attempt is retried like the others.
RetryAlways(attempt) == attempt < Retries

\* if attempt < retries - 1, attempt being the 0-based loop variable
ShouldRetry(attempt) == attempt < Retries - 1

\* The cache documents a previous run may have left in the store.
OldStocks == {[symbol |-> "AAPL", at |-> 0], [symbol |-> "MSFT", at |-> 0]}
OldHistory == {[symbol |-> "AAPL", period |-> "1mo", at |-> 0]}

\* The except clause of an attempt: sleep and go on, or re-raise.
AttemptFailed(b) ==
    IF ShouldRetry(b.attempts - 1)
    THEN [b EXCEPT !.pc = "sleep", !.failures = @ + 1, !.sleeps = @ + 1]
    ELSE [b EXCEPT !.pc = "raised", !.failures = @ + 1]

\* init_mongodb is called: the loop starts its first attempt.
MongoBegin ==
    /\ rev = "app"
    /\ boot.pc = "idle"
    /\ boot' = [boot EXCEPT !.pc = "ping", !.attempts = 1, !.step = 0]
    /\ UNCHANGED <<rev, now, stocks, lock, dbSet, req, lastGood, started, batch,
                   watchlists, users, history, accounts, reply, wget>>

\* AsyncIOMotorClient(...) and await mongo_client.admin.command('ping')
MongoPing(ok) ==
    /\ rev = "app"
    /\ boot.pc = "ping"
    /\ boot' = IF ok THEN [boot EXCEPT !.pc = "drop"] ELSE AttemptFailed(boot)
    /\ UNCHANGED <<rev, now, stocks, lock, dbSet, req, lastGood, started, batch,
                   watchlists, users, history, accounts, reply, wget>>

\* The four drop_indexes calls; an error is logged and the attempt goes on.
MongoDrop(ok) ==
    /\ rev = "app"
    /\ boot.pc = "drop"
    /\ boot' = [boot EXCEPT !.pc = "create", !.indexes = IF ok THEN 0 ELSE @]
    /\ UNCHANGED <<rev, now, stocks, lock, dbSet, req, lastGood, started, batch,
                   watchlists, users, history, accounts, reply, wget>>

\* One create_index call: an index that is already there is left alone,
\* an error ends the attempt in the except clause.
MongoCreate(ok) ==
    /\ rev = "app"
    /\ boot.pc = "create"
    /\ boot' = IF ok
               THEN [boot EXCEPT !.step = @ + 1,
                                 !.indexes = Max(@, boot.step + 1),
                                 !.pc = IF boot.step + 1 = NumIndexes
                                        THEN "clear" ELSE "create"]
               ELSE AttemptFailed(boot)
    /\ UNCHANGED <<rev, now, stocks, lock, dbSet, req, lastGood, started, batch,
                   watchlists, users, history, accounts, reply, wget>>

\* delete_many on stocks, then on stock_history, an error logged and
\* swallowed; the function returns.  o tells which call failed, if any.
MongoClear(o) ==
    /\ rev = "app"
    /\ boot.pc = "clear"
    /\ stocks' = IF o = "stocks" THEN stocks ELSE {}
    /\ history' = IF o = "none" THEN {} ELSE history
    /\ boot' = [boot EXCEPT !.pc = "returned"]
    /\ UNCHANGED <<rev, now, lock, dbSet, req, lastGood, started, batch,
                   watchlists, users, accounts, reply, wget>>

\* await asyncio.sleep(retry_delay) ends: the loop starts the next
\* attempt, or is exhausted and the function returns.
MongoWake ==
    /\ rev = "app"
    /\ boot.pc = "sleep"
    /\ now' = now + RetryDelay
    /\ boot' = IF boot.attempts < Retries
               THEN [boot EXCEPT !.pc = "ping", !.attempts = @ + 1, !.step = 0]
               ELSE [boot EXCEPT !.pc = "returned"]
    /\ UNCHANGED <<rev, stocks, lock, dbSet, req, lastGood, started, batch,
                   watchlists, users, history, accounts, reply, wget>>

\* run.py: asyncio.run(startup()) against a store that holds what the
\* previous run left.
InitMongo ==
    /\ rev = "app"
    /\ now = 0
    /\ stocks \in SUBSET OldStocks
    /\ lock = NoProc
    /\ dbSet = FALSE
    /\ req = [p \in Procs |-> IdleReq]
    /\ lastGood = [s \in RawSymbols |-> NoTime]
    /\ started = 0
    /\ batch = NoBatch
    /\ watchlists = <<>>
    /\ users = {}
    /\ boot \in {[NoBoot EXCEPT !.indexes = n] : n \in {0, NumIndexes}}
    /\ accounts = <<>>
    /\ history \in SUBSET OldHistory
    /\ reply = NoReply
    /\ wget = [p \in Procs |-> NoGet]

NextMongo ==
    \/ MongoBegin
    \/ \E ok \in BOOLEAN : MongoPing(ok)
    \/ \E ok \in BOOLEAN : MongoDrop(ok)
    \/ \E ok \in BOOLEAN : MongoCreate(ok)
    \/ \E o \in {"none", "stocks", "history"} : MongoClear(o)
    \/ MongoWake

SpecMongo == InitMongo /\ [][NextMongo]_vars

\* C29: init_mongodb begins at most Retries attempts; when it has returned,
\* every attempt but the last one begun had failed; it has slept once for
\* every failed attempt that was not the last; and it has raised exactly
\* when Retries attempts have failed.
C29_ThreeAttempts ==
    /\ boot.attempts <= Retries
    /\ boot.pc = "returned" => boot.failures = boot.attempts - 1
    /\ boot.sleeps = Min(boot.failures, Retries - 1)
    /\ boot.pc = "raised" <=> boot.failures = Retries

\* init_mongodb has returned from its third attempt, after two failures and
\* two sleeps.
C29_Witness ==
    boot.pc = "returned" /\ boot.attempts = Retries /\ boot.failures = 2 /\ boot.sleeps = 2

----------------------------------------------------------------------------
(* app: the startup event of src/app/main.py                               *)
(*                                                                         *)
(* startup_db_client awaits init_mongodb, assigns db_service and           *)
(* initializes it, replaces stock_service by a new StockService and calls  *)
(* set_db_service on it.  boot.pc goes on from "returned" to "stock" and   *)
(* ends at "started" (the handler returned) or "failed" (it raised, and    *)
(* boot.err names what it raised).                                         *)

\* init_mongodb raised: the except clause logs and re-raises.
BootMongoRaised ==
    /\ rev = "app"
    /\ boot.pc = "raised"
    /\ boot' = [boot EXCEPT !.pc = "failed", !.err = "init_mongodb"]
    /\ UNCHANGED <<rev, now, stocks, lock, dbSet, req, lastGood, started, batch,
                   watchlists, users, history, accounts, reply, wget>>

\* db_service = DatabaseService(); await db_service.initialize(): the
\* global is assigned before initialize runs, and an error of initialize
\* leaves the handler.
BootDbService(ok) ==
    /\ rev = "app"
    /\ boot.pc = "returned"
    /\ boot' = IF ok
               THEN [boot EXCEPT !.dbService = TRUE, !.pc = "stock"]
               ELSE [boot EXCEPT !.dbService = TRUE, !.pc = "failed", !.err = "initialize"]
    /\ UNCHANGED <<rev, now, stocks, lock, dbSet, req, lastGood, started, batch,
                   watchlists, users, history, accounts, reply, wget>>

\* stock_service = StockService(): __init__ sets self.db = None.
\* stock_service.set_db_service(db_service): StockService has no such
\* method (it has init_db_service, which nothing calls); the AttributeError
\* is logged and re-raised.
BootStockService ==
    /\ rev = "app"
    /\ boot.pc = "stock"
    /\ dbSet' = FALSE
    /\ boot' = [boot EXCEPT !.pc = "failed", !.err = "AttributeError"]
    /\ UNCHANGED <<rev, now, stocks, lock, req, lastGood, started, batch,
                   watchlists, users, history, accounts, reply, wget>>

\* A quote request reaches get_stock_data of the module's stock_service
\* once the startup event has run with the store answering every call:
\* init_mongodb returned and db_service.initialize() succeeded.
BootRequest(p, s) ==
    /\ boot.pc = "started" \/ (boot.pc = "failed" /\ boot.err = "AttributeError")
    /\ AppStart(p, s)

InitBoot == InitMongo

NextBoot ==
    \/ NextMongo
    \/ BootMongoRaised
    \/ \E ok \in BOOLEAN : BootDbService(ok)
    \/ BootStockService
    \/ \E p \in Procs : BootRequest(p, "AAPL")
    \/ \E p \in Procs : AppAcquire(p)
    \/ \E p \in Procs : AppFind(p)
    \/ \E p \in Procs : Return(p)

SpecBoot == InitBoot /\ [][NextBoot]_vars

\* An invocation that ended on self.db being None: it raised before its
\* lookup.
DerefNone(p) ==
    req[p].pc = "done" /\ req[p].res = "raise" /\ req[p].rk = NoSym

====
